---- MODULE Spec2Model ----
(***************************************************************************)
(* Field-level personal-data encryption of datacryptor_bot:                *)
(* core/encryption.py (PersonalDataEncryptor) and                          *)
(* services/user_service.py (UserService) as a state machine.              *)
(*                                                                         *)
(* A Python str is a sequence of code points, a bytes object a sequence of *)
(* 0..255.  Operations that can raise return [ok, v] or a result record    *)
(* with a status naming the exception class.                               *)
(***************************************************************************)
EXTENDS Integers, Sequences, FiniteSets, TLC

(***************************************************************************)
(* Sequence helpers (divide and conquer, to keep evaluation depth          *)
(* logarithmic in the length).                                             *)
(***************************************************************************)
\* the value of F at e, with e evaluated once: a local variable assignment
Bind(e, F(_)) == CHOOSE y \in {F(v) : v \in {e}} : TRUE

Min(S) == CHOOSE i \in S : \A j \in S : i <= j

RECURSIVE FlatRange(_, _, _)
FlatRange(ss, lo, hi) ==
    IF lo > hi THEN <<>>
    ELSE IF lo = hi THEN ss[lo]
    ELSE LET m == (lo + hi) \div 2
         IN  FlatRange(ss, lo, m) \o FlatRange(ss, m + 1, hi)

Flatten(ss) == FlatRange(ss, 1, Len(ss))

RECURSIVE SumRange(_, _, _)
SumRange(s, lo, hi) ==
    IF lo > hi THEN 0
    ELSE IF lo = hi THEN s[lo]
    ELSE LET m == (lo + hi) \div 2
         IN  SumRange(s, lo, m) + SumRange(s, m + 1, hi)

Indices(s) == [i \in 1..Len(s) |-> i]

\* s[start:stop] of Python for a sequence, 0-based bounds, negative bounds
\* counted from the end, both clamped to the sequence; None is passed as
\* 0 (start) or Len(s) (stop) by the callers.
PySlice(s, start, stop) ==
    LET n  == Len(s)
        a0 == IF start < 0 THEN start + n ELSE start
        b0 == IF stop < 0 THEN stop + n ELSE stop
        a  == IF a0 < 0 THEN 0 ELSE IF a0 > n THEN n ELSE a0
        b  == IF b0 < 0 THEN 0 ELSE IF b0 > n THEN n ELSE b0
    IN  IF a >= b THEN <<>> ELSE SubSeq(s, a + 1, b)

(***************************************************************************)
(* str.encode('utf-8') and bytes.decode('utf-8').                          *)
(***************************************************************************)
IsSurrogate(c) == c >= 55296 /\ c <= 57343

EncodeChar(c) ==
    IF c < 128 THEN <<c>>
    ELSE IF c < 2048 THEN <<192 + (c \div 64), 128 + (c % 64)>>
    ELSE IF c < 65536
         THEN <<224 + (c \div 4096), 128 + ((c \div 64) % 64), 128 + (c % 64)>>
    ELSE <<240 + (c \div 262144), 128 + ((c \div 4096) % 64),
           128 + ((c \div 64) % 64), 128 + (c % 64)>>

\* UnicodeEncodeError ("surrogates not allowed") is ok = FALSE
utf8_encode(text) ==
    IF \E i \in 1..Len(text) : IsSurrogate(text[i])
    THEN [ok |-> FALSE, v |-> <<>>]
    ELSE [ok |-> TRUE, v |-> Flatten([i \in 1..Len(text) |-> EncodeChar(text[i])])]

IsCont(b) == b >= 128 /\ b < 192

LeadLen(b) ==
    IF b < 128 THEN 1
    ELSE IF b >= 194 /\ b < 224 THEN 2
    ELSE IF b >= 224 /\ b < 240 THEN 3
    ELSE IF b >= 240 /\ b < 245 THEN 4
    ELSE 0

DecodeAt(bs, i) ==
    LET n == LeadLen(bs[i])
    IN  IF n = 1 THEN bs[i]
        ELSE IF n = 2 THEN (bs[i] - 192) * 64 + (bs[i + 1] - 128)
        ELSE IF n = 3
             THEN (bs[i] - 224) * 4096 + (bs[i + 1] - 128) * 64 + (bs[i + 2] - 128)
        ELSE (bs[i] - 240) * 262144 + (bs[i + 1] - 128) * 4096
             + (bs[i + 2] - 128) * 64 + (bs[i + 3] - 128)

WellFormedAt(bs, i) ==
    LET n == LeadLen(bs[i])
    IN  /\ n > 0
        /\ i + n - 1 <= Len(bs)
        /\ \A j \in (i + 1)..(i + n - 1) : IsCont(bs[j])
        /\ (i + n <= Len(bs)) => ~IsCont(bs[i + n])
        /\ n = 3 => DecodeAt(bs, i) >= 2048 /\ ~IsSurrogate(DecodeAt(bs, i))
        /\ n = 4 => DecodeAt(bs, i) >= 65536 /\ DecodeAt(bs, i) <= 1114111

\* UnicodeDecodeError is ok = FALSE
utf8_decode(bs) ==
    LET starts == SelectSeq(Indices(bs), LAMBDA i : ~IsCont(bs[i]))
    IN  IF /\ (Len(bs) > 0 => ~IsCont(bs[1]))
           /\ \A k \in 1..Len(starts) : WellFormedAt(bs, starts[k])
        THEN [ok |-> TRUE, v |-> [k \in 1..Len(starts) |-> DecodeAt(bs, starts[k])]]
        ELSE [ok |-> FALSE, v |-> <<>>]

(***************************************************************************)
(* base64.urlsafe_b64encode / base64.urlsafe_b64decode.                    *)
(***************************************************************************)
PadChar == 61

\* the URL-safe alphabet: A-Z a-z 0-9 - _
B64Char(x) ==
    IF x < 26 THEN 65 + x
    ELSE IF x < 52 THEN 97 + (x - 26)
    ELSE IF x < 62 THEN 48 + (x - 52)
    ELSE IF x = 62 THEN 45
    ELSE 95

\* the decoder translates - and _ to + and / and then accepts the standard
\* alphabet, so + and / are data characters too; 64 is "not a data character"
B64Value(c) ==
    IF c >= 65 /\ c <= 90 THEN c - 65
    ELSE IF c >= 97 /\ c <= 122 THEN c - 97 + 26
    ELSE IF c >= 48 /\ c <= 57 THEN c - 48 + 52
    ELSE IF c = 45 \/ c = 43 THEN 62
    ELSE IF c = 95 \/ c = 47 THEN 63
    ELSE 64

urlsafe_b64encode(bs) ==
    LET n  == Len(bs)
        At(i) == IF i <= n THEN bs[i] ELSE 0
        Ch(k) ==
            LET g  == (k - 1) \div 4
                p  == (k - 1) % 4
                b0 == At(3 * g + 1)
                b1 == At(3 * g + 2)
                b2 == At(3 * g + 3)
            IN  IF p = 0 THEN B64Char(b0 \div 4)
                ELSE IF p = 1 THEN B64Char((b0 % 4) * 16 + (b1 \div 16))
                ELSE IF p = 2
                     THEN IF 3 * g + 2 > n THEN PadChar
                          ELSE B64Char((b1 % 16) * 4 + (b2 \div 64))
                ELSE IF 3 * g + 3 > n THEN PadChar ELSE B64Char(b2 % 64)
    IN  [k \in 1..(4 * ((n + 2) \div 3)) |-> Ch(k)]

\* binascii.a2b_base64 in its default (non-strict) mode: characters outside
\* the alphabet are skipped, a complete pad sequence ends the input, and
\* leftover characters of an unfinished quad are binascii.Error (ok = FALSE).
\* data is the sequence of the indices of txt that hold data characters.
B64Before(data, i) == Cardinality({k \in 1..Len(data) : data[k] < i})

\* the pad character at index i completes a quad and ends the input
B64Stops(txt, data, i) ==
    /\ txt[i] = PadChar
    /\ Bind(B64Before(data, i), LAMBDA n :
         \/ n % 4 = 3
         \/ /\ n % 4 = 2
            /\ \E j \in ((IF n = 0 THEN 0 ELSE data[n]) + 1)..(i - 1) :
                   txt[j] = PadChar)

\* the bytes of the first m data characters
B64Bytes(txt, data, m) ==
    [j \in 1..(3 * (m \div 4) + (IF m % 4 = 0 THEN 0 ELSE (m % 4) - 1)) |->
        IF (j - 1) % 3 = 0
        THEN B64Value(txt[data[4 * ((j - 1) \div 3) + 1]]) * 4
             + (B64Value(txt[data[4 * ((j - 1) \div 3) + 2]]) \div 16)
        ELSE IF (j - 1) % 3 = 1
        THEN (B64Value(txt[data[4 * ((j - 1) \div 3) + 2]]) % 16) * 16
             + (B64Value(txt[data[4 * ((j - 1) \div 3) + 3]]) \div 4)
        ELSE (B64Value(txt[data[4 * ((j - 1) \div 3) + 3]]) % 4) * 64
             + B64Value(txt[data[4 * ((j - 1) \div 3) + 4]])]

urlsafe_b64decode(txt) ==
    Bind(SelectSeq(Indices(txt), LAMBDA i : B64Value(txt[i]) < 64), LAMBDA data :
    Bind({i \in 1..Len(txt) : B64Stops(txt, data, i)}, LAMBDA stops :
    Bind(IF stops = {} THEN Len(data) ELSE B64Before(data, Min(stops)), LAMBDA m :
        IF stops = {} /\ m % 4 # 0
        THEN [ok |-> FALSE, v |-> <<>>]
        ELSE [ok |-> TRUE, v |-> B64Bytes(txt, data, m)])))

(***************************************************************************)
(* Python values: str, int, bool, None, dict (insertion ordered, string    *)
(* keys) and "obj" for anything json cannot serialise.                     *)
(***************************************************************************)
PyStr(text)  == [t |-> "str", v |-> text]
PyInt(n)     == [t |-> "int", v |-> n]
PyBool(b)    == [t |-> "bool", v |-> b]
PyNone       == [t |-> "none", v |-> 0]
PyDict(kvs)  == [t |-> "dict", v |-> kvs]
PyObj        == [t |-> "obj", v |-> 0]

\* bool(value) as used by "if value" / "if not value"
Truthy(x) ==
    IF x.t = "str" THEN Len(x.v) > 0
    ELSE IF x.t = "int" THEN x.v # 0
    ELSE IF x.t = "bool" THEN x.v
    ELSE IF x.t = "none" THEN FALSE
    ELSE IF x.t = "dict" THEN Len(x.v) > 0
    ELSE TRUE

\* a dict body is a sequence of <<key, value>> pairs
DictKeys(kvs) == {kvs[i][1] : i \in 1..Len(kvs)}
DictHas(kvs, k) == \E i \in 1..Len(kvs) : kvs[i][1] = k
DictGet(kvs, k) == kvs[CHOOSE i \in 1..Len(kvs) : kvs[i][1] = k][2]
\* d[k] = x : an existing key keeps its place, a new key goes last
DictSet(kvs, k, x) ==
    IF DictHas(kvs, k)
    THEN [i \in 1..Len(kvs) |-> IF kvs[i][1] = k THEN <<k, x>> ELSE kvs[i]]
    ELSE Append(kvs, <<k, x>>)

\* an update that drops what the dict held
DictUpdate_replace(kvs, other) == other

RECURSIVE DictUpdateFrom(_, _, _)
DictUpdateFrom(kvs, other, i) ==
    IF i > Len(other) THEN kvs
    ELSE DictUpdateFrom(DictSet(kvs, other[i][1], other[i][2]), other, i + 1)
\* d.update(other)
DictUpdate(kvs, other) == DictUpdateFrom(kvs, other, 1)

RECURSIVE DigitsOf(_)
DigitsOf(n) == IF n < 10 THEN <<48 + n>> ELSE Append(DigitsOf(n \div 10), 48 + (n % 10))
\* str(n) for an int
IntText(n) == IF n < 0 THEN <<45>> \o DigitsOf(0 - n) ELSE DigitsOf(n)

\* str(value) as auto_encrypt_user_data applies it to a truthy value
PyStrOf(x) ==
    IF x.t = "str" THEN x.v
    ELSE IF x.t = "int" THEN IntText(x.v)
    ELSE IF x.t = "bool" THEN (IF x.v THEN <<84, 114, 117, 101>> ELSE <<70, 97, 108, 115, 101>>)
    ELSE IF x.t = "none" THEN <<78, 111, 110, 101>>
    ELSE <<60, 111, 98, 106, 62>>

(***************************************************************************)
(* json.dumps (default separators) and json.loads.                         *)
(***************************************************************************)
HexDigit(x) == IF x < 10 THEN 48 + x ELSE 97 + (x - 10)
HexValue(c) ==
    IF c >= 48 /\ c <= 57 THEN c - 48
    ELSE IF c >= 97 /\ c <= 102 THEN c - 97 + 10
    ELSE IF c >= 65 /\ c <= 70 THEN c - 65 + 10
    ELSE 16
UEscape(c) ==
    <<92, 117, HexDigit(c \div 4096), HexDigit((c \div 256) % 16),
      HexDigit((c \div 16) % 16), HexDigit(c % 16)>>

JsonEscapeChar(c, ensure_ascii) ==
    IF c = 34 THEN <<92, 34>>
    ELSE IF c = 92 THEN <<92, 92>>
    ELSE IF c = 10 THEN <<92, 110>>
    ELSE IF c = 13 THEN <<92, 114>>
    ELSE IF c = 9 THEN <<92, 116>>
    ELSE IF c = 8 THEN <<92, 98>>
    ELSE IF c = 12 THEN <<92, 102>>
    ELSE IF c < 32 THEN UEscape(c)
    ELSE IF (~ensure_ascii) \/ c < 127 THEN <<c>>
    ELSE IF c < 65536 THEN UEscape(c)
    ELSE UEscape(55296 + ((c - 65536) \div 1024)) \o UEscape(56320 + ((c - 65536) % 1024))

JsonString(text, ensure_ascii) ==
    <<34>> \o Flatten([i \in 1..Len(text) |-> JsonEscapeChar(text[i], ensure_ascii)]) \o <<34>>

\* TypeError ("Object of type ... is not JSON serializable")
RECURSIVE Serializable(_)
Serializable(x) ==
    IF x.t = "obj" THEN FALSE
    ELSE IF x.t = "dict" THEN \A i \in 1..Len(x.v) : Serializable(x.v[i][2])
    ELSE TRUE

RECURSIVE JsonText(_, _)
JsonText(x, ensure_ascii) ==
    IF x.t = "str" THEN JsonString(x.v, ensure_ascii)
    ELSE IF x.t = "int" THEN IntText(x.v)
    ELSE IF x.t = "bool" THEN (IF x.v THEN <<116, 114, 117, 101>> ELSE <<102, 97, 108, 115, 101>>)
    ELSE IF x.t = "none" THEN <<110, 117, 108, 108>>
    ELSE <<123>>
         \o Flatten([i \in 1..Len(x.v) |->
                (IF i > 1 THEN <<44, 32>> ELSE <<>>)
                \o JsonString(x.v[i][1], ensure_ascii) \o <<58, 32>>
                \o JsonText(x.v[i][2], ensure_ascii)])
         \o <<125>>

json_dumps(x, ensure_ascii) ==
    IF Serializable(x) THEN [ok |-> TRUE, v |-> JsonText(x, ensure_ascii)]
    ELSE [ok |-> FALSE, v |-> <<>>]

\* json.loads: objects, strings, integers, true, false, null (the values the
\* program stores); arrays and floats are outside the modelled value space.
\* A parse result is [ok, v, nx]: nx is the index after the value.
JsonErr == [ok |-> FALSE, v |-> PyNone, nx |-> 0]
JsonOk(x, nx) == [ok |-> TRUE, v |-> x, nx |-> nx]

IsWs(c) == c = 32 \/ c = 10 \/ c = 13 \/ c = 9
IsDigit(c) == c >= 48 /\ c <= 57

RECURSIVE SkipWs(_, _)
SkipWs(txt, i) == IF i <= Len(txt) /\ IsWs(txt[i]) THEN SkipWs(txt, i + 1) ELSE i

\* number of backslashes that end at index j, not going left of lo
RECURSIVE BackslashRun(_, _, _)
BackslashRun(txt, j, lo) ==
    IF j >= lo /\ txt[j] = 92 THEN 1 + BackslashRun(txt, j - 1, lo) ELSE 0

\* first index of a quote that no backslash escapes (0: none); s0 is the
\* first index of the string body
ClosingQuote(txt, s0) ==
    Bind({j \in s0..Len(txt) :
              txt[j] = 34 /\ BackslashRun(txt, j - 1, s0) % 2 = 0}, LAMBDA qs :
        IF qs = {} THEN 0 ELSE Min(qs))

IsHex4(body, i) ==
    /\ i + 3 <= Len(body)
    /\ \A k \in i..(i + 3) : HexValue(body[k]) < 16
Hex4(body, i) ==
    HexValue(body[i]) * 4096 + HexValue(body[i + 1]) * 256
    + HexValue(body[i + 2]) * 16 + HexValue(body[i + 3])

\* \uXXXX at index i of body is a high surrogate followed by \uXXXX with a
\* low surrogate
IsPair(body, i) ==
    /\ Hex4(body, i + 2) >= 55296 /\ Hex4(body, i + 2) <= 56319
    /\ i + 7 <= Len(body)
    /\ body[i + 6] = 92 /\ body[i + 7] = 117
    /\ IsHex4(body, i + 8)
    /\ Hex4(body, i + 8) >= 56320 /\ Hex4(body, i + 8) <= 57343

\* the escape that starts with the backslash at index i of body:
\* [ok, c, n] with c the character and n the length of the escape
EscapeAt(body, i) ==
    Bind(IF i + 1 <= Len(body) THEN body[i + 1] ELSE 0, LAMBDA e :
        IF e = 34 \/ e = 92 \/ e = 47 THEN [ok |-> TRUE, c |-> e, n |-> 2]
        ELSE IF e = 98 THEN [ok |-> TRUE, c |-> 8, n |-> 2]
        ELSE IF e = 102 THEN [ok |-> TRUE, c |-> 12, n |-> 2]
        ELSE IF e = 110 THEN [ok |-> TRUE, c |-> 10, n |-> 2]
        ELSE IF e = 114 THEN [ok |-> TRUE, c |-> 13, n |-> 2]
        ELSE IF e = 116 THEN [ok |-> TRUE, c |-> 9, n |-> 2]
        ELSE IF e = 117 /\ IsHex4(body, i + 2)
             THEN IF IsPair(body, i)
                  THEN [ok |-> TRUE, n |-> 12,
                        c |-> 65536 + (Hex4(body, i + 2) - 55296) * 1024
                              + (Hex4(body, i + 8) - 56320)]
                  ELSE [ok |-> TRUE, c |-> Hex4(body, i + 2), n |-> 6]
        ELSE [ok |-> FALSE, c |-> 0, n |-> 0])

\* the body of a JSON string (between the quotes) to its text
RECURSIVE Unescape(_)
Unescape(body) ==
    Bind({k \in 1..Len(body) : body[k] = 92}, LAMBDA bs :
        IF bs = {} THEN [ok |-> TRUE, v |-> body]
        ELSE
          Bind(Min(bs), LAMBDA i :
          Bind(EscapeAt(body, i), LAMBDA esc :
            IF ~esc.ok THEN [ok |-> FALSE, v |-> <<>>]
            ELSE
              Bind(Unescape(SubSeq(body, i + esc.n, Len(body))), LAMBDA rest :
                IF rest.ok
                THEN [ok |-> TRUE,
                      v |-> SubSeq(body, 1, i - 1) \o <<esc.c>> \o rest.v]
                ELSE [ok |-> FALSE, v |-> <<>>]))))

\* the string whose body is txt[i+1 .. j-1], j the closing quote
StringBody(body, j) ==
    IF \E k \in 1..Len(body) : body[k] < 32 THEN JsonErr
    ELSE Bind(Unescape(body), LAMBDA u :
             IF u.ok THEN JsonOk(PyStr(u.v), j + 1) ELSE JsonErr)

\* txt[i] is the opening quote
ParseString(txt, i) ==
    Bind(ClosingQuote(txt, i + 1), LAMBDA j :
        IF j = 0 THEN JsonErr ELSE StringBody(SubSeq(txt, i + 1, j - 1), j))

RECURSIVE DigitsEnd(_, _)
DigitsEnd(txt, i) == IF i <= Len(txt) /\ IsDigit(txt[i]) THEN DigitsEnd(txt, i + 1) ELSE i

RECURSIVE DigitsValue(_, _, _)
DigitsValue(txt, lo, hi) ==
    IF lo > hi THEN 0 ELSE DigitsValue(txt, lo, hi - 1) * 10 + (txt[hi] - 48)

\* the integer whose digits are txt[d0 .. d1-1]; a leading 0 stands alone
IntBody(txt, neg, d0, d1) ==
    IF d1 = d0 THEN JsonErr
    ELSE IF d1 <= Len(txt) /\ txt[d1] \in {46, 101, 69} THEN JsonErr
    ELSE Bind(DigitsValue(txt, d0, d1 - 1), LAMBDA n :
             JsonOk(PyInt(IF neg THEN 0 - n ELSE n), d1))

\* txt[i] is - or a digit
ParseInt(txt, i) ==
    Bind(IF txt[i] = 45 THEN i + 1 ELSE i, LAMBDA d0 :
        IntBody(txt, txt[i] = 45, d0,
                IF d0 <= Len(txt) /\ txt[d0] = 48 THEN d0 + 1
                ELSE DigitsEnd(txt, d0)))

StartsWith(txt, i, lit) ==
    /\ i + Len(lit) - 1 <= Len(txt)
    /\ \A k \in 1..Len(lit) : txt[i + k - 1] = lit[k]

RECURSIVE ParseValue(_, _)
RECURSIVE ParseMembers(_, _, _)

\* i is the index of the first character of the value
ParseValue(txt, i) ==
    IF i > Len(txt) THEN JsonErr
    ELSE IF txt[i] = 34 THEN ParseString(txt, i)
    ELSE IF txt[i] = 123
         THEN Bind(SkipWs(txt, i + 1), LAMBDA j :
                  IF j <= Len(txt) /\ txt[j] = 125 THEN JsonOk(PyDict(<<>>), j + 1)
                  ELSE ParseMembers(txt, j, <<>>))
    ELSE IF StartsWith(txt, i, <<116, 114, 117, 101>>) THEN JsonOk(PyBool(TRUE), i + 4)
    ELSE IF StartsWith(txt, i, <<102, 97, 108, 115, 101>>) THEN JsonOk(PyBool(FALSE), i + 5)
    ELSE IF StartsWith(txt, i, <<110, 117, 108, 108>>) THEN JsonOk(PyNone, i + 4)
    ELSE IF txt[i] = 45 \/ IsDigit(txt[i]) THEN ParseInt(txt, i)
    ELSE JsonErr

\* i is the index where a member's key must start; acc holds the members read
ParseMembers(txt, i, acc) ==
    IF i > Len(txt) \/ txt[i] # 34 THEN JsonErr
    ELSE
      Bind(ParseString(txt, i), LAMBDA k :
        IF ~k.ok THEN JsonErr
        ELSE
          Bind(SkipWs(txt, k.nx), LAMBDA c :
            IF c > Len(txt) \/ txt[c] # 58 THEN JsonErr
            ELSE
              Bind(ParseValue(txt, SkipWs(txt, c + 1)), LAMBDA x :
                IF ~x.ok THEN JsonErr
                ELSE
                  Bind(SkipWs(txt, x.nx), LAMBDA e :
                    IF e > Len(txt) THEN JsonErr
                    ELSE IF txt[e] = 125
                         THEN JsonOk(PyDict(DictSet(acc, k.v.v, x.v)), e + 1)
                    ELSE IF txt[e] = 44
                         THEN ParseMembers(txt, SkipWs(txt, e + 1),
                                           DictSet(acc, k.v.v, x.v))
                    ELSE JsonErr))))

\* json.JSONDecodeError is ok = FALSE
json_loads(txt) ==
    Bind(ParseValue(txt, SkipWs(txt, 1)), LAMBDA r :
        IF r.ok /\ SkipWs(txt, r.nx) > Len(txt)
        THEN [ok |-> TRUE, v |-> r.v]
        ELSE [ok |-> FALSE, v |-> PyNone])

(***************************************************************************)
(* String literals of the program, as code points.                         *)
(***************************************************************************)
Str ==
    [
      passport |-> <<112, 97, 115, 115, 112, 111, 114, 116>>,
      fio |-> <<102, 105, 111>>,
      address |-> <<97, 100, 100, 114, 101, 115, 115>>,
      phone |-> <<112, 104, 111, 110, 101>>,
      vzh |-> <<118, 122, 104>>,
      patent |-> <<112, 97, 116, 101, 110, 116>>,
      document_photo |-> <<100, 111, 99, 117, 109, 101, 110, 116, 95, 112, 104, 111, 116, 111>>,
      other |-> <<111, 116, 104, 101, 114>>,
      category |-> <<99, 97, 116, 101, 103, 111, 114, 121>>,
      encrypted_at |-> <<101, 110, 99, 114, 121, 112, 116, 101, 100, 95, 97, 116>>,
      key_version |-> <<107, 101, 121, 95, 118, 101, 114, 115, 105, 111, 110>>,
      compliance |-> <<99, 111, 109, 112, 108, 105, 97, 110, 99, 101>>,
      metadata |-> <<109, 101, 116, 97, 100, 97, 116, 97>>,
      data |-> <<100, 97, 116, 97>>,
      _encrypted |-> <<95, 101, 110, 99, 114, 121, 112, 116, 101, 100>>,
      _encryption_version |-> <<95, 101, 110, 99, 114, 121, 112, 116, 105, 111, 110, 95, 118, 101, 114, 115, 105, 111, 110>>,
      _encrypted_at |-> <<95, 101, 110, 99, 114, 121, 112, 116, 101, 100, 95, 97, 116>>,
      passport_series |-> <<112, 97, 115, 115, 112, 111, 114, 116, 95, 115, 101, 114, 105, 101, 115>>,
      passport_number |-> <<112, 97, 115, 115, 112, 111, 114, 116, 95, 110, 117, 109, 98, 101, 114>>,
      passport_issue_date |-> <<112, 97, 115, 115, 112, 111, 114, 116, 95, 105, 115, 115, 117, 101, 95, 100, 97, 116, 101>>,
      passport_issued_by |-> <<112, 97, 115, 115, 112, 111, 114, 116, 95, 105, 115, 115, 117, 101, 100, 95, 98, 121>>,
      vzh_number |-> <<118, 122, 104, 95, 110, 117, 109, 98, 101, 114>>,
      patent_number |-> <<112, 97, 116, 101, 110, 116, 95, 110, 117, 109, 98, 101, 114>>,
      document_scan_path |-> <<100, 111, 99, 117, 109, 101, 110, 116, 95, 115, 99, 97, 110, 95, 112, 97, 116, 104>>,
      email |-> <<101, 109, 97, 105, 108>>,
      snils |-> <<115, 110, 105, 108, 115>>,
      inn |-> <<105, 110, 110>>,
      passport_birth_date |-> <<112, 97, 115, 115, 112, 111, 114, 116, 95, 98, 105, 114, 116, 104, 95, 100, 97, 116, 101>>,
      passport_birth_place |-> <<112, 97, 115, 115, 112, 111, 114, 116, 95, 98, 105, 114, 116, 104, 95, 112, 108, 97, 99, 101>>,
      vzh_issue_date |-> <<118, 122, 104, 95, 105, 115, 115, 117, 101, 95, 100, 97, 116, 101>>,
      vzh_expiry_date |-> <<118, 122, 104, 95, 101, 120, 112, 105, 114, 121, 95, 100, 97, 116, 101>>,
      patent_issue_date |-> <<112, 97, 116, 101, 110, 116, 95, 105, 115, 115, 117, 101, 95, 100, 97, 116, 101>>,
      patent_expiry_date |-> <<112, 97, 116, 101, 110, 116, 95, 101, 120, 112, 105, 114, 121, 95, 100, 97, 116, 101>>,
      driver_license |-> <<100, 114, 105, 118, 101, 114, 95, 108, 105, 99, 101, 110, 115, 101>>,
      phone_raw |-> <<112, 104, 111, 110, 101, 95, 114, 97, 119>>
    ]

\* '152-FZ'
COMPLIANCE == <<49, 53, 50, 45, 70, 90>>
\* "[DECRYPTION_ERROR]"
DECRYPTION_ERROR == <<91, 68, 69, 67, 82, 89, 80, 84, 73, 79, 78, 95, 69, 82, 82, 79, 82, 93>>
\* b'encryption_salt', b'authentication_salt'
encryption_salt == <<101, 110, 99, 114, 121, 112, 116, 105, 111, 110, 95, 115, 97, 108, 116>>
authentication_salt == <<97, 117, 116, 104, 101, 110, 116, 105, 99, 97, 116, 105, 111, 110, 95, 115, 97, 108, 116>>

(***************************************************************************)
(* The clock: datetime.utcnow() is a whole number of days after            *)
(* 2020-01-01T00:00:00 (the time of day is always midnight).               *)
(***************************************************************************)
IsLeap(y) == y % 4 = 0 /\ (y % 100 # 0 \/ y % 400 = 0)
DaysInYear(y) == IF IsLeap(y) THEN 366 ELSE 365
DaysInMonth(y, m) ==
    IF m = 2 THEN (IF IsLeap(y) THEN 29 ELSE 28)
    ELSE IF m \in {4, 6, 9, 11} THEN 30
    ELSE 31

RECURSIVE YearOf(_, _)
YearOf(y, d) == IF d >= DaysInYear(y) THEN YearOf(y + 1, d - DaysInYear(y)) ELSE <<y, d>>
RECURSIVE MonthOf(_, _, _)
MonthOf(y, m, d) ==
    IF d >= DaysInMonth(y, m) THEN MonthOf(y, m + 1, d - DaysInMonth(y, m)) ELSE <<m, d + 1>>

Pad2(n) == <<48 + (n \div 10), 48 + (n % 10)>>

\* datetime.isoformat() of the instant "day" days after 2020-01-01
isoformat(day) ==
    LET yd == YearOf(2020, day)
        md == MonthOf(yd[1], 1, yd[2])
    IN  IntText(yd[1]) \o <<45>> \o Pad2(md[1]) \o <<45>> \o Pad2(md[2])
        \o <<84, 48, 48, 58, 48, 48, 58, 48, 48>>

\* the k-th reading of the clock inside one call that started at day base:
\* the day changes before reading number tick (0: it does not change)
ClockRead(base, tick, k) == IF tick # 0 /\ k >= tick THEN base + 1 ELSE base

(***************************************************************************)
(* Library primitives.  PBKDF2, AES-GCM and HMAC-SHA256 are modelled by    *)
(* keyed checksums over bytes: deterministic, of the real output lengths,  *)
(* and changed by every single-byte change of any input.                   *)
(***************************************************************************)
KEY_LEN == 32
IV_LEN == 12
TAG_LEN == 16
HMAC_LEN == 32

WSum(bs) == SumRange([i \in 1..Len(bs) |-> (2 * i + 1) * bs[i]], 1, Len(bs)) % 256

\* PBKDF2HMAC(SHA256, length=32, salt, iterations=100000).derive(password)
pbkdf2(salt, password) ==
    LET w == WSum(password)
        z == 3 * WSum(salt) + Len(password)
    IN  [j \in 1..KEY_LEN |-> ((2 * j + 1) * w + z + j) % 256]

\* os.urandom(12): the draw number k of the generator in state seed
urandom(seed, k) == [j \in 1..IV_LEN |-> (seed * 101 + k * 59 + j * 7) % 256]

\* the key stream's offset for one key and IV
gcm_stream(key, iv) == (WSum(key) + 3 * WSum(iv)) % 256

gcm_tag(key, iv, aad, ct) ==
    LET w == 3 * WSum(iv) + 5 * WSum(ct) + 7 * WSum(aad) + Len(ct) + Len(aad)
    IN  [j \in 1..TAG_LEN |-> (key[j] + w + j) % 256]

\* encryptor.update(pt) + encryptor.finalize(), and encryptor.tag
gcm_encrypt(key, iv, aad, pt) ==
    LET k  == gcm_stream(key, iv)
        ct == [i \in 1..Len(pt) |-> (pt[i] + k + 13 * i) % 256]
    IN  [ct |-> ct, tag |-> gcm_tag(key, iv, aad, ct)]

\* decryptor.update(ct) + decryptor.finalize(); InvalidTag is ok = FALSE
gcm_decrypt(key, iv, tag, aad, ct) ==
    LET k == gcm_stream(key, iv)
    IN  IF tag = gcm_tag(key, iv, aad, ct)
        THEN [ok |-> TRUE, v |-> [i \in 1..Len(ct) |-> (ct[i] - k - 13 * i) % 256]]
        ELSE [ok |-> FALSE, v |-> <<>>]

\* modes.GCM(iv, tag) raises ValueError for these lengths
gcm_params_ok(iv, tag) == Len(iv) >= 8 /\ Len(iv) <= 128 /\ Len(tag) >= TAG_LEN

\* a digest that does not depend on the key
hmac_sha256_unkeyed(key, msg) ==
    [j \in 1..HMAC_LEN |-> ((2 * j + 1) * WSum(msg) + Len(msg)) % 256]

\* hmac.HMAC(key, SHA256).update(msg).finalize()
hmac_sha256(key, msg) ==
    LET w == WSum(msg)
        n == Len(msg)
    IN  [j \in 1..HMAC_LEN |-> (key[j] + (2 * j + 1) * w + n) % 256]

(***************************************************************************)
(* core/encryption.py                                                      *)
(***************************************************************************)
\* class DataCategory(Enum): member name -> value
DataCategory ==
    ("PASSPORT" :> Str.passport) @@ ("FIO" :> Str.fio) @@ ("ADDRESS" :> Str.address)
    @@ ("PHONE" :> Str.phone) @@ ("VZH" :> Str.vzh) @@ ("PATENT" :> Str.patent)
    @@ ("DOCUMENT_PHOTO" :> Str.document_photo) @@ ("OTHER" :> Str.other)

Categories == DOMAIN DataCategory

\* a lookup that falls back to OTHER for an unknown value
DataCategoryOf_lenient(x) ==
    IF x.t = "str" /\ \E c \in Categories : DataCategory[c] = x.v
    THEN [ok |-> TRUE, v |-> CHOOSE c \in Categories : DataCategory[c] = x.v]
    ELSE [ok |-> TRUE, v |-> "OTHER"]

\* DataCategory(value): the member with that value, ValueError (ok = FALSE)
\* when there is none or the value is no string
DataCategoryOf(x) ==
    IF x.t = "str" /\ \E c \in Categories : DataCategory[c] = x.v
    THEN [ok |-> TRUE, v |-> CHOOSE c \in Categories : DataCategory[c] = x.v]
    ELSE [ok |-> FALSE, v |-> "OTHER"]

ENCRYPTED_FIELDS ==
    <<Str.fio, Str.passport_series, Str.passport_number, Str.passport_issue_date,
      Str.passport_issued_by, Str.address, Str.phone, Str.vzh_number,
      Str.patent_number, Str.document_scan_path, Str.email, Str.snils, Str.inn>>

InEncryptedFields(field) == \E i \in 1..Len(ENCRYPTED_FIELDS) : ENCRYPTED_FIELDS[i] = field

\* both keys derived with the one salt
derive_keys_one_salt(master_key) ==
    [encryption_key |-> pbkdf2(encryption_salt, master_key),
     auth_key |-> pbkdf2(encryption_salt, master_key)]

\* PersonalDataEncryptor._derive_keys
derive_keys(master_key) ==
    [encryption_key |-> pbkdf2(encryption_salt, master_key),
     auth_key |-> pbkdf2(authentication_salt, master_key)]

\* the object __init__ leaves behind for the encoded master key
NewEncryptor(mk, key_rotation_days) ==
    Bind(derive_keys(mk), LAMBDA keys :
        [master_key |-> mk,
         key_rotation_days |-> key_rotation_days,
         encryption_key |-> keys.encryption_key,
         auth_key |-> keys.auth_key])

\* PersonalDataEncryptor.__init__: master_key is a str; the result is the new
\* object or the exception raised
PersonalDataEncryptor(master_key, key_rotation_days) ==
    IF Len(master_key) # 32
    THEN [status |-> "ValueError", self |-> <<>>]
    ELSE Bind(utf8_encode(master_key), LAMBDA mk :
             IF ~mk.ok THEN [status |-> "UnicodeEncodeError", self |-> <<>>]
             ELSE [status |-> "ok", self |-> NewEncryptor(mk.v, key_rotation_days)])

\* a version that counts periods of 90 days whatever the instance was built with
get_current_key_version_90(self, day) ==
    <<118>> \o IntText(day \div 90)

\* PersonalDataEncryptor._get_current_key_version at clock reading "day"
get_current_key_version(self, day) ==
    <<118>> \o IntText(day \div self.key_rotation_days)

\* PersonalDataEncryptor._create_metadata; the clock is read for encrypted_at
\* and then again for key_version
create_metadata(self, data_category, day_at, day_version) ==
    PyDict(<< <<Str.category, PyStr(DataCategory[data_category])>>,
              <<Str.encrypted_at, PyStr(isoformat(day_at))>>,
              <<Str.key_version, PyStr(get_current_key_version(self, day_version))>> ,
              <<Str.compliance, PyStr(COMPLIANCE)>> >>)

\* the library calls of encrypt_field, in order
EncryptCalls ==
    <<"urandom", "Cipher", "json.dumps", "encode",
      "encryptor.update", "encryptor.finalize",
      "hmac.HMAC", "hmac.update", "hmac.finalize", "urlsafe_b64encode">>

\* a sealing that signs the IV and the ciphertext without the tag
seal_unsigned_tag(self, iv, encoded) ==
    Bind(gcm_encrypt(self.encryption_key, iv, <<>>, encoded), LAMBDA enc :
    Bind(hmac_sha256(self.auth_key, iv \o enc.ct), LAMBDA hmac_digest :
        [status |-> "ok",
         v |-> urlsafe_b64encode(iv \o enc.ct \o enc.tag \o hmac_digest),
         trace |-> EncryptCalls]))

\* encrypt_field from the encoded JSON on: encryption, HMAC, concatenation
\* and base64
seal(self, iv, encoded) ==
    Bind(gcm_encrypt(self.encryption_key, iv, <<>>, encoded), LAMBDA enc :
    Bind(hmac_sha256(self.auth_key, iv \o enc.ct \o enc.tag), LAMBDA hmac_digest :
        [status |-> "ok",
         v |-> urlsafe_b64encode(iv \o enc.ct \o enc.tag \o hmac_digest),
         trace |-> EncryptCalls]))

\* the try block of encrypt_field
encrypt_nonempty(self, plain_text, data_category, iv, day_at, day_version) ==
    Bind(json_dumps(PyDict(<< <<Str.metadata,
                               create_metadata(self, data_category, day_at, day_version)>>,
                              <<Str.data, PyStr(plain_text)>> >>), FALSE),
         LAMBDA json_data :
    IF ~json_data.ok
    THEN [status |-> "EncryptionError", v |-> <<>>, trace |-> SubSeq(EncryptCalls, 1, 3)]
    ELSE Bind(utf8_encode(json_data.v), LAMBDA encoded :
             IF ~encoded.ok
             THEN [status |-> "EncryptionError", v |-> <<>>,
                   trace |-> SubSeq(EncryptCalls, 1, 4)]
             ELSE seal(self, iv, encoded.v)))

\* PersonalDataEncryptor.encrypt_field with no empty-input shortcut
encrypt_field_always(self, plain_text, data_category, iv, day_at, day_version) ==
    encrypt_nonempty(self, plain_text, data_category, iv, day_at, day_version)

\* PersonalDataEncryptor.encrypt_field.  iv is what os.urandom(12) returns,
\* day_at and day_version the two clock readings of _create_metadata.  The
\* result holds the returned str (v), or the exception raised (status), and
\* the library calls made, in order (trace).
encrypt_field(self, plain_text, data_category, iv, day_at, day_version) ==
    IF Len(plain_text) = 0
    THEN [status |-> "ok", v |-> <<>>, trace |-> <<>>]
    ELSE encrypt_nonempty(self, plain_text, data_category, iv, day_at, day_version)

\* slices that take the tag with the ciphertext
SplitEnvelopeShifted(combined) ==
    [iv |-> PySlice(combined, 0, 12),
     auth_tag |-> PySlice(combined, -48, -32),
     hmac_digest |-> PySlice(combined, -32, Len(combined)),
     encrypted_data |-> PySlice(combined, 12, -32)]

\* the slices decrypt_field cuts the decoded bytes into
SplitEnvelope(combined) ==
    [iv |-> PySlice(combined, 0, 12),
     auth_tag |-> PySlice(combined, -48, -32),
     hmac_digest |-> PySlice(combined, -32, Len(combined)),
     encrypted_data |-> PySlice(combined, 12, -48)]

\* a comparison that accepts every signature
hmac_verify_any(expected, signature) == TRUE

\* h.verify(signature) for the digest h holds: FALSE is InvalidSignature
hmac_verify(expected, signature) == expected = signature

DecryptResult(status, data, category, trace) ==
    [status |-> status, data |-> data, category |-> category, trace |-> trace]

\* decrypt_field leaving by one of its except clauses
DecryptFail(status, trace) == DecryptResult(status, PyNone, "OTHER", trace)

\* a reading that accepts the packages of key version v0 only
ReadPackage_v0(data_package) ==
    IF /\ data_package.t = "dict"
       /\ DictHas(data_package.v, Str.metadata)
       /\ DictHas(data_package.v, Str.data)
       /\ DictGet(data_package.v, Str.metadata).t = "dict"
       /\ DictHas(DictGet(data_package.v, Str.metadata).v, Str.category)
       /\ DataCategoryOf(DictGet(DictGet(data_package.v, Str.metadata).v,
                                 Str.category)).ok
       /\ DictHas(DictGet(data_package.v, Str.metadata).v, Str.key_version)
       /\ DictGet(DictGet(data_package.v, Str.metadata).v, Str.key_version)
              = PyStr(<<118, 48>>)
    THEN [ok |-> TRUE, data |-> DictGet(data_package.v, Str.data),
          category |-> DataCategoryOf(DictGet(DictGet(data_package.v,
                                          Str.metadata).v, Str.category)).v]
    ELSE [ok |-> FALSE, data |-> PyNone, category |-> "OTHER"]

\* data_package.get('metadata', {}) and DataCategory(metadata.get('category',
\* 'other')), data_package['data']: the returned pair, or the AttributeError /
\* ValueError / KeyError that becomes DecryptionError
ReadPackage(data_package) ==
    IF data_package.t # "dict"
    THEN [ok |-> FALSE, data |-> PyNone, category |-> "OTHER"]
    ELSE
      Bind(IF DictHas(data_package.v, Str.metadata)
           THEN DictGet(data_package.v, Str.metadata) ELSE PyDict(<<>>), LAMBDA metadata :
        IF metadata.t # "dict"
        THEN [ok |-> FALSE, data |-> PyNone, category |-> "OTHER"]
        ELSE
          Bind(DataCategoryOf(IF DictHas(metadata.v, Str.category)
                              THEN DictGet(metadata.v, Str.category)
                              ELSE PyStr(Str.other)), LAMBDA cat :
            IF cat.ok /\ DictHas(data_package.v, Str.data)
            THEN [ok |-> TRUE, data |-> DictGet(data_package.v, Str.data),
                  category |-> cat.v]
            ELSE [ok |-> FALSE, data |-> PyNone, category |-> "OTHER"]))

\* decrypt_field from the decrypted bytes on: decode, json.loads, metadata
read_plain(plain, trace) ==
    Bind(utf8_decode(plain), LAMBDA text :
      IF ~text.ok THEN DecryptFail("DecryptionError", trace \o <<"decode">>)
      ELSE
        Bind(json_loads(text.v), LAMBDA data_package :
          IF ~data_package.ok
          THEN DecryptFail("DecryptionError", trace \o <<"decode", "json.loads">>)
          ELSE
            Bind(ReadPackage(data_package.v), LAMBDA pkg :
              IF ~pkg.ok
              THEN DecryptFail("DecryptionError", trace \o <<"decode", "json.loads">>)
              ELSE DecryptResult("ok", pkg.data, pkg.category,
                                 trace \o <<"decode", "json.loads">>))))

\* Cipher(AES(key), GCM(iv, auth_tag)), decryptor.update + finalize, and what
\* follows
gcm_open(self, parts, trace) ==
    IF ~gcm_params_ok(parts.iv, parts.auth_tag)
    THEN DecryptFail("DecryptionError", trace \o <<"Cipher">>)
    ELSE
      Bind(gcm_decrypt(self.encryption_key, parts.iv, parts.auth_tag, <<>>,
                       parts.encrypted_data), LAMBDA plain :
        IF ~plain.ok
        THEN DecryptFail("SecurityError",
                         trace \o <<"Cipher", "decryptor.update", "decryptor.finalize">>)
        ELSE read_plain(plain.v,
                        trace \o <<"Cipher", "decryptor.update", "decryptor.finalize">>))

HmacCalls == <<"hmac.HMAC", "hmac.update", "hmac.verify">>

\* the HMAC check made after the decryption instead of before it
decrypt_then_verify(self, parts, trace) ==
    Bind(gcm_open(self, parts, trace), LAMBDA r :
      IF r.status # "ok" THEN r
      ELSE IF hmac_verify(hmac_sha256(self.auth_key,
                              parts.iv \o parts.encrypted_data \o parts.auth_tag),
                          parts.hmac_digest)
      THEN DecryptResult("ok", r.data, r.category, r.trace \o HmacCalls)
      ELSE DecryptFail("SecurityError", r.trace \o HmacCalls))

\* decrypt_field from the split on: the HMAC check, then the decryption
verify_then_decrypt(self, parts, trace) ==
    IF hmac_verify(hmac_sha256(self.auth_key,
                       parts.iv \o parts.encrypted_data \o parts.auth_tag),
                   parts.hmac_digest)
    THEN gcm_open(self, parts, trace \o HmacCalls)
    ELSE DecryptFail("SecurityError", trace \o HmacCalls)

\* the try block of decrypt_field
decrypt_nonempty(self, encrypted_text) ==
    Bind(utf8_encode(encrypted_text), LAMBDA encoded :
      IF ~encoded.ok THEN DecryptFail("DecryptionError", <<"encode">>)
      ELSE
        Bind(urlsafe_b64decode(encoded.v), LAMBDA decoded :
          IF ~decoded.ok
          THEN DecryptFail("DecryptionError", <<"encode", "urlsafe_b64decode">>)
          ELSE verify_then_decrypt(self, SplitEnvelope(decoded.v),
                                   <<"encode", "urlsafe_b64decode">>)))

\* PersonalDataEncryptor.decrypt_field: the returned (data, category), or the
\* exception raised (status), and the library calls made, in order (trace)
decrypt_field(self, encrypted_text) ==
    IF Len(encrypted_text) = 0
    THEN DecryptResult("ok", PyStr(<<>>), "OTHER", <<>>)
    ELSE decrypt_nonempty(self, encrypted_text)

\* a classification by the prefix of the name
map_field_to_category_by_prefix(field) ==
    IF field = Str.fio THEN "FIO"
    ELSE IF StartsWith(field, 1, Str.passport) THEN "PASSPORT"
    ELSE IF field = Str.address THEN "ADDRESS"
    ELSE IF field = Str.phone THEN "PHONE"
    ELSE IF StartsWith(field, 1, Str.vzh) THEN "VZH"
    ELSE IF StartsWith(field, 1, Str.patent) THEN "PATENT"
    ELSE IF field = Str.document_scan_path THEN "DOCUMENT_PHOTO"
    ELSE "OTHER"

\* PersonalDataEncryptor._map_field_to_category
map_field_to_category(field) ==
    IF field = Str.fio THEN "FIO"
    ELSE IF field \in {Str.passport_series, Str.passport_number,
                       Str.passport_issue_date, Str.passport_issued_by}
         THEN "PASSPORT"
    ELSE IF field = Str.address THEN "ADDRESS"
    ELSE IF field = Str.phone THEN "PHONE"
    ELSE IF field = Str.vzh_number THEN "VZH"
    ELSE IF field = Str.patent_number THEN "PATENT"
    ELSE IF field = Str.document_scan_path THEN "DOCUMENT_PHOTO"
    ELSE "OTHER"

\* A record-level call runs in an environment env = [seed, day, tick]: the
\* state of the random generator, the day the call starts at and the clock
\* reading before which the day changes (0: it does not change).
Now(env, k) == ClockRead(env.day, env.tick, k)

\* an encryption failure that is logged and not raised again: the value is
\* copied as it is
encrypt_item_swallow(self, field, value, env, k) ==
    Bind(encrypt_field(self, PyStrOf(value), map_field_to_category(field),
                       urandom(env.seed, k), Now(env, 2 * k - 1), Now(env, 2 * k)),
         LAMBDA r :
        IF r.status = "ok"
        THEN [raised |-> FALSE, v |-> PyStr(r.v), status |-> r.status]
        ELSE [raised |-> FALSE, v |-> value, status |-> r.status])

\* the sensitive branch of the loop of auto_encrypt_user_data, for the k-th
\* field it encrypts: the new value, or EncryptionError raised again
encrypt_item(self, field, value, env, k) ==
    Bind(encrypt_field(self, PyStrOf(value), map_field_to_category(field),
                       urandom(env.seed, k), Now(env, 2 * k - 1), Now(env, 2 * k)),
         LAMBDA r :
        IF r.status = "ok"
        THEN [raised |-> FALSE, v |-> PyStr(r.v), status |-> r.status]
        ELSE [raised |-> TRUE, v |-> PyNone, status |-> r.status])

\* stamps that leave out the time of encryption
stamp_reserved_untimed(self, encrypted_data, day_version, day_at) ==
    DictSet(DictSet(encrypted_data, Str._encrypted, PyBool(TRUE)),
            Str._encryption_version,
            PyStr(get_current_key_version(self, day_version)))

\* the three reserved keys auto_encrypt_user_data sets after its loop
stamp_reserved(self, encrypted_data, day_version, day_at) ==
    DictSet(DictSet(DictSet(encrypted_data, Str._encrypted, PyBool(TRUE)),
                    Str._encryption_version,
                    PyStr(get_current_key_version(self, day_version))),
            Str._encrypted_at, PyStr(isoformat(day_at)))

\* the loop of auto_encrypt_user_data from item i on; acc is encrypted_data
\* so far and calls the status of every encrypt_field call made so far
RECURSIVE auto_encrypt_from(_, _, _, _, _, _)
auto_encrypt_from(self, items, i, acc, calls, env) ==
    IF i > Len(items)
    THEN [status |-> "ok",
          v |-> stamp_reserved(self, acc, Now(env, 2 * Len(calls) + 1),
                               Now(env, 2 * Len(calls) + 2)),
          calls |-> calls]
    ELSE IF InEncryptedFields(items[i][1]) /\ Truthy(items[i][2])
    THEN Bind(encrypt_item(self, items[i][1], items[i][2], env, Len(calls) + 1),
              LAMBDA r :
             IF r.raised
             THEN [status |-> "EncryptionError", v |-> <<>>,
                   calls |-> Append(calls, r.status)]
             ELSE auto_encrypt_from(self, items, i + 1,
                                    DictSet(acc, items[i][1], r.v),
                                    Append(calls, r.status), env))
    ELSE auto_encrypt_from(self, items, i + 1,
                           DictSet(acc, items[i][1], items[i][2]), calls, env)

\* PersonalDataEncryptor.auto_encrypt_user_data: user_data is the body of a
\* dict; the result holds the returned dict (v) or the exception raised
\* (status), and the status of every encrypt_field call made (calls)
auto_encrypt_user_data(self, user_data, env) ==
    auto_encrypt_from(self, user_data, 1, <<>>, <<>>, env)

\* the clock readings auto_encrypt_user_data has made when it returns enc
ClockReads(enc) == 2 * Len(enc.calls) + 2

\* a decryption failure that leaves the stored value in place
decrypt_item_raw(self, value) ==
    Bind(decrypt_field(self, value.v), LAMBDA r :
        IF r.status = "ok" THEN r.data ELSE value)

\* the sensitive branch of the loop of auto_decrypt_user_data: the decrypted
\* value, or the sentinel when decrypt_field raises
decrypt_item(self, value) ==
    Bind(decrypt_field(self, value.v), LAMBDA r :
        IF r.status = "ok" THEN r.data ELSE PyStr(DECRYPTION_ERROR))

\* a decryption of every non-empty str value, whatever its field
auto_decrypt_user_data_every_str(self, encrypted_data) ==
    [i \in 1..Len(encrypted_data) |->
        <<encrypted_data[i][1],
          IF /\ Truthy(encrypted_data[i][2])
             /\ encrypted_data[i][2].t = "str"
          THEN decrypt_item(self, encrypted_data[i][2])
          ELSE encrypted_data[i][2]>>]

\* PersonalDataEncryptor.auto_decrypt_user_data on the body of a dict
auto_decrypt_user_data(self, encrypted_data) ==
    [i \in 1..Len(encrypted_data) |->
        <<encrypted_data[i][1],
          IF /\ InEncryptedFields(encrypted_data[i][1])
             /\ Truthy(encrypted_data[i][2])
             /\ encrypted_data[i][2].t = "str"
          THEN decrypt_item(self, encrypted_data[i][2])
          ELSE encrypted_data[i][2]>>]

\* the length with its lowest byte first
to_bytes4_little(n) ==
    <<n % 256, (n \div 256) % 256, (n \div 65536) % 256, (n \div 16777216) % 256>>

\* len(metadata_json).to_bytes(4, 'big')
to_bytes4(n) ==
    <<(n \div 16777216) % 256, (n \div 65536) % 256, (n \div 256) % 256, n % 256>>

\* the library calls of encrypt_file up to the opening of the output
FileCalls ==
    <<"open(file_path)", "read", "urandom", "Cipher", "json.dumps", "encode",
      "authenticate_additional_data", "encryptor.update", "encryptor.finalize",
      "open(output_path)">>

\* the pieces with an IV that is kept between the calls
file_pieces_cached_iv(self, file_data, data_category, iv, day_at, day_version) ==
    Bind(utf8_encode(json_dumps(create_metadata(self, data_category, day_at,
                                                day_version), TRUE).v).v,
         LAMBDA metadata_json :
    Bind(gcm_encrypt(self.encryption_key, urandom(1, 1), metadata_json, file_data),
         LAMBDA enc :
        <<urandom(1, 1), to_bytes4(Len(metadata_json)), metadata_json, enc.ct, enc.tag>>))

\* what encrypt_file hands to its five f.write calls, in order: iv, the
\* length of the metadata, the metadata (json.dumps escapes non-ASCII), the
\* encrypted data and the tag
file_pieces(self, file_data, data_category, iv, day_at, day_version) ==
    Bind(utf8_encode(json_dumps(create_metadata(self, data_category, day_at,
                                                day_version), TRUE).v).v,
         LAMBDA metadata_json :
    Bind(gcm_encrypt(self.encryption_key, iv, metadata_json, file_data), LAMBDA enc :
        <<iv, to_bytes4(Len(metadata_json)), metadata_json, enc.ct, enc.tag>>))

\* faults of the file store during one call: none (0), the f.write call with
\* that number raises (1..5), open(output_path, 'wb') raises (6)
Faults == 0..6

\* PersonalDataEncryptor.encrypt_file.  input and output are what the file
\* store holds at file_path and at output_path (<<>>: no file, <<bytes>>: a
\* file); iv, day_at and day_version as for encrypt_field.  The result holds
\* the exception raised (status), what output_path holds afterwards (output:
\* open(.., 'wb') empties the file, every f.write that returns appends to it,
\* nothing removes it), the pieces written and the calls made (trace).
encrypt_file(self, input, output, data_category, iv, day_at, day_version, fault) ==
    IF Len(input) = 0
    THEN [status |-> "EncryptionError", output |-> output, pieces |-> <<>>,
          trace |-> SubSeq(FileCalls, 1, 1)]
    ELSE Bind(file_pieces(self, input[1], data_category, iv, day_at, day_version),
              LAMBDA pieces :
           IF fault = 0
           THEN [status |-> "ok", output |-> <<Flatten(pieces)>>, pieces |-> pieces,
                 trace |-> FileCalls \o [k \in 1..5 |-> "write"]]
           ELSE IF fault = 6
           THEN [status |-> "EncryptionError", output |-> output, pieces |-> pieces,
                 trace |-> FileCalls]
           ELSE [status |-> "EncryptionError",
                 output |-> <<Flatten(SubSeq(pieces, 1, fault - 1))>>,
                 pieces |-> pieces,
                 trace |-> FileCalls \o [k \in 1..fault |-> "write"]])

\* PersonalDataEncryptor.get_encryption_info at clock reading day
get_encryption_info(self, day) ==
    [algorithm |-> "AES-256-GCM",
     key_rotation_days |-> self.key_rotation_days,
     current_key_version |-> get_current_key_version(self, day),
     encrypted_fields |-> ENCRYPTED_FIELDS,
     compliance |-> COMPLIANCE,
     security_level |-> "high"]

\* the methods of class PersonalDataEncryptor
Methods ==
    {"__init__", "_derive_keys", "_create_metadata", "_get_current_key_version",
     "encrypt_field", "decrypt_field", "auto_encrypt_user_data",
     "auto_decrypt_user_data", "_map_field_to_category", "encrypt_file",
     "get_encryption_info"}

\* a method that derives the keys again from the encryption key
after_call_rekeyed(self, method) ==
    NewEncryptor(self.encryption_key, self.key_rotation_days)

\* the instance after a call of one of its methods other than __init__ and
\* _derive_keys: none of them assigns to an attribute of self
after_call(self, method) ==
    self

(***************************************************************************)
(* services/user_service.py and the users table of database/models.py      *)
(***************************************************************************)
\* UserService.encrypted_fields
encrypted_fields ==
    <<Str.fio, Str.phone, Str.email, Str.address,
      Str.passport_series, Str.passport_number, Str.passport_issue_date,
      Str.passport_issued_by, Str.passport_birth_date, Str.passport_birth_place,
      Str.vzh_number, Str.vzh_issue_date, Str.vzh_expiry_date,
      Str.patent_number, Str.patent_issue_date, Str.patent_expiry_date,
      Str.inn, Str.snils, Str.driver_license>>

\* a < b for two str (code point order)
StrLess(a, b) ==
    \E i \in 1..(Len(b)) :
        /\ \A j \in 1..(i - 1) : j <= Len(a) /\ a[j] = b[j]
        /\ \/ i = Len(a) + 1
           \/ i <= Len(a) /\ a[i] < b[i]

\* the items of a dict in the order json.dumps(sort_keys=True) writes them
SortKeys(kvs) ==
    [r \in 1..Len(kvs) |->
        kvs[CHOOSE i \in 1..Len(kvs) :
                Cardinality({j \in 1..Len(kvs) : StrLess(kvs[j][1], kvs[i][1])}) = r - 1]]

\* hashlib.sha256(bs).hexdigest(): a checksum of the real length
sha256_hexdigest(bs) ==
    Bind(WSum(bs), LAMBDA w :
        [j \in 1..64 |-> HexDigit(((2 * j + 1) * w + Len(bs) + j) % 16)])

\* UserService._create_data_hash; TypeError and UnicodeEncodeError are
\* ok = FALSE.  The values of user_data are not dicts.
create_data_hash(user_data) ==
    Bind(json_dumps(PyDict(SortKeys(user_data)), FALSE), LAMBDA sorted_data :
        IF ~sorted_data.ok THEN [ok |-> FALSE, v |-> <<>>]
        ELSE Bind(utf8_encode(sorted_data.v), LAMBDA encoded :
                 IF ~encoded.ok THEN [ok |-> FALSE, v |-> <<>>]
                 ELSE [ok |-> TRUE, v |-> sha256_hexdigest(encoded.v)]))

\* a row of the users table (models.User); deleted_at is <<>> for NULL
UserRow(encrypted_data, data_hash, created_at, updated_at, deleted_at, is_active) ==
    [encrypted_data |-> encrypted_data, data_hash |-> data_hash,
     created_at |-> created_at, updated_at |-> updated_at,
     deleted_at |-> deleted_at, is_active |-> is_active]

\* the outcome of a write: the row to commit (ok), or an exception, and the
\* auto_encrypt_user_data call made on the way (enc_in, enc)
WriteFailed(enc_in, enc) == [ok |-> FALSE, row |-> <<>>, enc_in |-> enc_in, enc |-> enc]

\* UserService._create_new_user
create_new_user(self, user_data, env) ==
    Bind(auto_encrypt_user_data(self, user_data, env), LAMBDA enc :
      IF enc.status # "ok" THEN WriteFailed(user_data, enc)
      ELSE
        Bind(json_dumps(PyDict(enc.v), TRUE), LAMBDA blob :
          IF ~blob.ok THEN WriteFailed(user_data, enc)
          ELSE
            Bind(create_data_hash(user_data), LAMBDA h :
              IF ~h.ok THEN WriteFailed(user_data, enc)
              ELSE [ok |-> TRUE, enc_in |-> user_data, enc |-> enc,
                    row |-> UserRow(blob.v, h.v,
                                    Now(env, ClockReads(enc) + 1),
                                    Now(env, ClockReads(enc) + 2),
                                    <<>>, TRUE)])))

\* UserService._decrypt_user_data: the body of the dict it returns
decrypt_user_data(self, user) ==
    IF Len(user.encrypted_data) = 0 THEN <<>>
    ELSE Bind(json_loads(user.encrypted_data), LAMBDA encrypted_dict :
             IF encrypted_dict.ok /\ encrypted_dict.v.t = "dict"
             THEN auto_decrypt_user_data(self, encrypted_dict.v.v)
             ELSE <<>>)

\* the re-encryption both update paths end with: auto_encrypt_user_data,
\* json.dumps, _create_data_hash, updated_at
rewrite_user(self, user, current_data, env) ==
    Bind(auto_encrypt_user_data(self, current_data, env), LAMBDA enc :
      IF enc.status # "ok" THEN WriteFailed(current_data, enc)
      ELSE
        Bind(json_dumps(PyDict(enc.v), TRUE), LAMBDA blob :
          IF ~blob.ok THEN WriteFailed(current_data, enc)
          ELSE
            Bind(create_data_hash(current_data), LAMBDA h :
              IF ~h.ok THEN WriteFailed(current_data, enc)
              ELSE [ok |-> TRUE, enc_in |-> current_data, enc |-> enc,
                    row |-> UserRow(blob.v, h.v, user.created_at,
                                    Now(env, ClockReads(enc) + 1),
                                    user.deleted_at, user.is_active)])))

\* UserService._update_user_data
update_user_data(self, user, user_data, env) ==
    rewrite_user(self, user, DictUpdate(decrypt_user_data(self, user), user_data), env)

\* UserService.save_user_data up to the commit; rows is <<>> when the table
\* has no row for the user and <<user>> when it has one
save_user_data(self, rows, user_data, env) ==
    IF Len(rows) > 0 THEN update_user_data(self, rows[1], user_data, env)
    ELSE create_new_user(self, user_data, env)

\* UserService.update_user_field up to the commit, for an existing user
update_user_field(self, user, field, value, env) ==
    rewrite_user(self, user, DictSet(decrypt_user_data(self, user), field, value), env)

\* UserService.get_user_data: the body of the dict it returns
get_user_data(self, rows) ==
    IF Len(rows) = 0 \/ ~rows[1].is_active THEN <<>>
    ELSE decrypt_user_data(self, rows[1])

\* UserService.delete_user_data for an existing user: the row to commit
delete_user_data(user, day) ==
    [user EXCEPT !.is_active = FALSE, !.deleted_at = <<day>>]

\* what can raise inside the try block of finish_data_collection, besides
\* nothing: state.get_data(), state.clear(), the sending of the summary
HandlerFaults == {"none", "get_data", "clear", "summary"}

\* finish_data_collection of apps/handlers/start_handler.py (and, with the
\* same steps, PersonalDataHandler.finish_data_collection).  state_data is
\* what the dialogue state holds, refused says that session.commit() raises
\* inside save_user_data.  The result holds the value save_user_data
\* returned (called, saved), the row it committed (w), the dialogue state
\* afterwards (<<>>: cleared) and the messages sent to the user.
finish_data_collection(self, rows, state_data, env, refused, fault) ==
    IF fault = "get_data"
    THEN [called |-> FALSE, saved |-> FALSE, w |-> WriteFailed(state_data, <<>>),
          state |-> <<state_data>>, sent |-> <<"error">>]
    ELSE Bind(save_user_data(self, rows, state_data, env), LAMBDA w :
           IF fault = "clear"
           THEN [called |-> TRUE, saved |-> w.ok /\ ~refused, w |-> w,
                 state |-> <<state_data>>, sent |-> <<"error">>]
           ELSE IF fault = "summary"
           THEN [called |-> TRUE, saved |-> w.ok /\ ~refused, w |-> w,
                 state |-> <<>>, sent |-> <<"error">>]
           ELSE [called |-> TRUE, saved |-> w.ok /\ ~refused, w |-> w,
                 state |-> <<>>, sent |-> <<"summary">>])

\* BOT_TOKEN.ljust(32, '0')[:32]
LjustCut(token) == [i \in 1..32 |-> IF i <= Len(token) THEN token[i] ELSE 48]

\* get_encryptor when _encryptor_instance is None: config.py has refused an
\* empty BOT_TOKEN, so the 'default-encryption-key' branch is never taken
new_singleton(token) == PersonalDataEncryptor(LjustCut(token), 90)

(***************************************************************************)
(* Inputs of the model.                                                    *)
(***************************************************************************)
\* the first and the last day the clock shows (days after 2020-01-01)
StartDay == 89
MaxDay == 90
\* states of the random generator
MaxSeed == 2

\* BOT_TOKEN values of the environment
Tokens == { <<55, 49, 58, 65, 98>>, [i \in 1..46 |-> 48 + (i % 10)] }

\* master keys handed to create_encryptor: 32, 31 and 33 ASCII characters,
\* 16 two-byte characters (32 bytes), 32 two-byte characters (64 bytes), none,
\* and the key get_encryptor makes of a BOT_TOKEN
MasterKeys ==
    { [i \in 1..32 |-> 107], [i \in 1..31 |-> 107], [i \in 1..33 |-> 107],
      [i \in 1..16 |-> 233], [i \in 1..32 |-> 233], <<>>,
      LjustCut(<<55, 49, 58, 65, 98>>) }

RotationDays == {90, 30}

\* plaintexts: empty, ASCII, two-byte character with quote and backslash,
\* a lone surrogate
Plaintexts == { <<>>, <<97>>, <<233, 34, 92>>, <<97, 55296>> }

\* (plain_text, data_category) pairs handed to encrypt_field: every category
\* with an ASCII and with an empty plaintext, and every plaintext
FieldInputs ==
    {[plain_text |-> p, data_category |-> c] : p \in {<<>>, <<97>>}, c \in Categories}
    \cup {[plain_text |-> p, data_category |-> "FIO"] : p \in Plaintexts}
    \cup {[plain_text |-> <<233, 34, 92>>, data_category |-> "OTHER"]}

\* the pairs whose envelopes are tampered with
TamperInputs ==
    { [plain_text |-> <<97>>, data_category |-> "FIO"],
      [plain_text |-> <<233, 34, 92>>, data_category |-> "DOCUMENT_PHOTO"] }

\* what is added (mod 256) to the byte that is changed
Deltas == {1, 128}

\* user ids of the users table
UserIds == {1}

\* the BOT_TOKEN the service runs with
ServiceToken == <<55, 49, 58, 65, 98>>

\* records handed to save_user_data: a sensitive, a plain and a declared but
\* unlisted field; a non-ASCII, an int and an empty value; a sensitive value
\* with a lone surrogate after one that encrypts
Records ==
    { << <<Str.fio, PyStr(<<97>>)>>, <<Str.phone_raw, PyStr(<<98>>)>>,
         <<Str.driver_license, PyStr(<<88>>)>> >>,
      << <<Str.phone, PyStr(<<233, 34, 92>>)>>, <<Str.inn, PyInt(7)>>,
         <<Str.fio, PyStr(<<>>)>> >>,
      << <<Str.phone, PyStr(<<98>>)>>, <<Str.fio, PyStr(<<97, 55296>>)>> >> }

\* records handed to auto_encrypt_user_data: those above, one with a zero,
\* a bool and a None under sensitive names and an int under a plain one, and
\* one with two sensitive values
RoundTripRecords ==
    Records \cup
    { << <<Str.inn, PyInt(0)>>, <<Str.snils, PyBool(TRUE)>>, <<Str.email, PyNone>>,
         <<Str.phone_raw, PyInt(5)>> >>,
      << <<Str.fio, PyStr(<<97>>)>>, <<Str.phone, PyStr(<<98>>)>> >> }

\* (field, value) pairs handed to update_user_field
FieldUpdates ==
    { <<Str.fio, PyStr(<<98, 99>>)>>,
      <<Str.email, PyStr(<<55296>>)>> }

\* the last day of the clock where key versions are followed, and the
\* rotation periods of the instances followed (90 is the default)
LastDay == 185
VersionPeriods == {1, 7, 30, 90}
\* how many days pass between two calls
Elapsed == {1, 29}

\* field names handed to _map_field_to_category: the names of
\* ENCRYPTED_FIELDS, the other names of UserService.encrypted_fields, a name
\* no list has, a category value, 'FIO' and the empty name
FieldNames ==
    {ENCRYPTED_FIELDS[i] : i \in 1..Len(ENCRYPTED_FIELDS)}
    \cup {encrypted_fields[i] : i \in 1..Len(encrypted_fields)}
    \cup {Str.phone_raw, Str.passport, Str.document_photo, <<70, 73, 79>>, <<>>}

\* paths of the file store
Paths == {"in", "out"}

\* the UserService coroutines that can be in flight at once
Tasks == {1, 2}

\* the calls that run as concurrent tasks: update_user_field of fio and of
\* address, save_user_data of a record with email
RaceCalls ==
    { [op |-> "update_user_field",
       user_data |-> << <<Str.fio, PyStr(<<98, 99>>)>> >>],
      [op |-> "update_user_field",
       user_data |-> << <<Str.address, PyStr(<<120>>)>> >>],
      [op |-> "save_user_data",
       user_data |-> << <<Str.email, PyStr(<<101>>)>> >>] }

\* master keys of other installations: one character of the service's key
\* changed, and two unrelated keys
ForeignKeys ==
    { LjustCut(<<55, 49, 58, 65, 99>>), [i \in 1..32 |-> 107], [i \in 1..32 |-> 233] }

\* json.dumps(x, ensure_ascii=False).encode('utf-8')
JsonBytes(x) == utf8_encode(json_dumps(x, FALSE).v).v

\* a data package with the given metadata entries and the data 'a'
PackageOf(metadata) ==
    PyDict(<< <<Str.metadata, PyDict(metadata)>>, <<Str.data, PyStr(<<97>>)>> >>)

\* plain texts sealed with the keys of the instance by something other than
\* encrypt_field: the category 'xyz', 'FIO' and 5; no category; no
\* metadata; key version v999 and none; metadata that is a str; no data;
\* text that is no JSON; bytes that are no UTF-8
SealedPlains ==
    { JsonBytes(PackageOf(<< <<Str.category, PyStr(<<120, 121, 122>>)>>,
                             <<Str.key_version, PyStr(<<118, 48>>)>> >>)),
      JsonBytes(PackageOf(<< <<Str.category, PyStr(<<70, 73, 79>>)>> >>)),
      JsonBytes(PackageOf(<< <<Str.category, PyInt(5)>> >>)),
      JsonBytes(PackageOf(<< <<Str.key_version, PyStr(<<118, 48>>)>> >>)),
      JsonBytes(PyDict(<< <<Str.data, PyStr(<<97>>)>> >>)),
      JsonBytes(PackageOf(<< <<Str.category, PyStr(Str.fio)>>,
                             <<Str.key_version, PyStr(<<118, 57, 57, 57>>)>> >>)),
      JsonBytes(PackageOf(<< <<Str.category, PyStr(Str.phone)>> >>)),
      JsonBytes(PyDict(<< <<Str.metadata, PyStr(<<120>>)>>,
                          <<Str.data, PyStr(<<97>>)>> >>)),
      JsonBytes(PyDict(<< <<Str.metadata,
                            PyDict(<< <<Str.category, PyStr(Str.fio)>> >>)>> >>)),
      <<104, 101, 108, 108, 111>>,
      <<255>> }

\* texts that are no envelope: 'hello' and 'AAA' (no base64), '!' and
\* 'AAAA!' (characters outside the alphabet), 'AAAA' (base64 of three
\* bytes), a lone surrogate
GarbageTexts ==
    { <<104, 101, 108, 108, 111>>, <<65, 65, 65>>, <<33>>, <<65, 65, 65, 65, 33>>,
      <<65, 65, 65, 65>>, <<97, 55296>> }

\* payloads of the files handed to encrypt_file: empty and binary
FilePayloads == { <<>>, <<0, 255, 10>> }

\* the categories files are encrypted with
FileCategories == {"DOCUMENT_PHOTO", "PASSPORT"}

\* how one character of a stored envelope is corrupted: its lowest bit is
\* flipped, or it becomes '!'
Corruptions == {"flip", "bang"}
\* the corrupted character, counted back from the last character
CorruptOffsets == {0, 1, 2}

(***************************************************************************)
(* State.                                                                  *)
(***************************************************************************)
VARIABLES
    encryptor,   \* the cipher instance in use: [set, self]
    clock,       \* datetime.utcnow(), in days after 2020-01-01
    envelope,    \* the last envelope encrypt_field returned, with its inputs
    last,        \* the last call and its result
    users,       \* the users table: user id -> <<>> or <<row>>
    plain,       \* per user id, the record whose encryption was last committed
    files,       \* the file store: path -> <<>> (no file) or <<bytes>>
    tasks        \* the UserService updates in flight: task -> <<>> or <<update>>

vars == <<encryptor, clock, envelope, last, users, plain, files, tasks>>

NoEncryptor == [set |-> FALSE, self |-> <<>>]
NoEnvelope ==
    [set |-> FALSE, text |-> <<>>, plain_text |-> <<>>, data_category |-> "OTHER",
     day |-> 0]
NoCall == [op |-> "none"]

\* the interpreter after the modules are imported: no singleton yet
Init ==
    /\ encryptor = NoEncryptor
    /\ clock = StartDay
    /\ envelope = NoEnvelope
    /\ last = NoCall
    /\ users = [u \in UserIds |-> <<>>]
    /\ plain = [u \in UserIds |-> <<>>]
    /\ files = [p \in Paths |-> <<>>]
    /\ tasks = [t \in Tasks |-> <<>>]

\* UserService() is constructed: get_encryptor() has built the singleton
\* from BOT_TOKEN; the users table is empty
InitService ==
    /\ encryptor = [set |-> TRUE, self |-> new_singleton(ServiceToken).self]
    /\ clock = StartDay
    /\ envelope = NoEnvelope
    /\ last = NoCall
    /\ users = [u \in UserIds |-> <<>>]
    /\ plain = [u \in UserIds |-> <<>>]
    /\ files = [p \in Paths |-> <<>>]
    /\ tasks = [t \in Tasks |-> <<>>]

\* an instance built with one of the rotation periods, on 2020-01-01
InitVersion ==
    /\ encryptor \in {[set |-> TRUE,
                       self |-> PersonalDataEncryptor(LjustCut(ServiceToken), d).self] :
                          d \in VersionPeriods}
    /\ clock = 0
    /\ envelope = NoEnvelope
    /\ last = NoCall
    /\ users = [u \in UserIds |-> <<>>]
    /\ plain = [u \in UserIds |-> <<>>]
    /\ files = [p \in Paths |-> <<>>]
    /\ tasks = [t \in Tasks |-> <<>>]

\* the caller is between two calls
Idle == last.op = "none"

\* the cipher instance after the call of one of its methods has returned
AfterCall(method) == [encryptor EXCEPT !.self = after_call(@, method)]

\* midnight passes
Tick ==
    /\ Idle
    /\ clock < MaxDay
    /\ clock' = clock + 1
    /\ UNCHANGED <<encryptor, envelope, last, users, plain, files, tasks>>

\* days pass between two calls
Elapse(days) ==
    /\ Idle
    /\ clock + days <= LastDay
    /\ clock' = clock + days
    /\ UNCHANGED <<encryptor, envelope, last, users, plain, files, tasks>>

\* the caller has used the result of the last call
Forget ==
    /\ ~Idle
    /\ last' = NoCall
    /\ UNCHANGED <<encryptor, clock, envelope, users, plain, files, tasks>>

\* the caller drops the envelope it holds
Discard ==
    /\ Idle
    /\ envelope.set
    /\ envelope' = NoEnvelope
    /\ UNCHANGED <<encryptor, clock, last, users, plain, files, tasks>>

\* get_encryptor(): builds the singleton on the first call
GetEncryptor(token) ==
    /\ Idle
    /\ ~encryptor.set
    /\ \E r \in {new_singleton(token)} :
           /\ encryptor' = IF r.status = "ok" THEN [set |-> TRUE, self |-> r.self]
                           ELSE encryptor
           /\ last' = [op |-> "get_encryptor", master_key |-> LjustCut(token),
                       status |-> r.status]
    /\ UNCHANGED <<clock, envelope, users, plain, files, tasks>>

\* create_encryptor(master_key, key_rotation_days): the caller keeps the new
\* instance in place of the one it had (prev)
CreateEncryptor(master_key, key_rotation_days) ==
    /\ Idle
    /\ ~envelope.set
    /\ \E r \in {PersonalDataEncryptor(master_key, key_rotation_days)} :
           /\ encryptor' = IF r.status = "ok" THEN [set |-> TRUE, self |-> r.self]
                           ELSE encryptor
           /\ last' = [op |-> "create_encryptor", master_key |-> master_key,
                       status |-> r.status, self |-> r.self, prev |-> encryptor]
    /\ UNCHANGED <<clock, envelope, users, plain, files, tasks>>

\* encryptor.encrypt_field(plain_text, data_category); the day may change
\* before the clock reading number tick
EncryptField(in, seed, tick) ==
    /\ Idle
    /\ encryptor.set
    /\ ~envelope.set
    /\ ClockRead(clock, tick, 2) <= MaxDay
    /\ \E r \in {encrypt_field(encryptor.self, in.plain_text, in.data_category,
                               urandom(seed, 1),
                               ClockRead(clock, tick, 1), ClockRead(clock, tick, 2))} :
           /\ last' = [op |-> "encrypt_field", plain_text |-> in.plain_text,
                       data_category |-> in.data_category, iv |-> urandom(seed, 1),
                       res |-> r]
           /\ envelope' = IF r.status = "ok" /\ Len(r.v) > 0
                          THEN [set |-> TRUE, text |-> r.v,
                                plain_text |-> in.plain_text,
                                data_category |-> in.data_category,
                                day |-> ClockRead(clock, tick, 1)]
                          ELSE envelope
    /\ clock' = IF Len(in.plain_text) = 0 THEN clock ELSE ClockRead(clock, tick, 2)
    /\ encryptor' = AfterCall("encrypt_field")
    /\ UNCHANGED <<users, plain, files, tasks>>

\* a call of decrypt_field and its result
\* (at: the byte changed or the number of bytes kept, 0 when neither)
DecryptCall(input, text, at) ==
    [op |-> "decrypt_field", input |-> input, text |-> text, at |-> at,
     res |-> decrypt_field(encryptor.self, text)]

\* encryptor.decrypt_field(envelope) on the envelope as it was returned
DecryptEnvelope ==
    /\ Idle
    /\ encryptor.set
    /\ envelope.set
    /\ last' = DecryptCall("envelope", envelope.text, 0)
    /\ encryptor' = AfterCall("decrypt_field")
    /\ UNCHANGED <<clock, envelope, users, plain, files, tasks>>

\* encryptor.decrypt_field("")
DecryptEmpty ==
    /\ Idle
    /\ encryptor.set
    /\ last' = DecryptCall("empty", <<>>, 0)
    /\ encryptor' = AfterCall("decrypt_field")
    /\ UNCHANGED <<clock, envelope, users, plain, files, tasks>>

\* the bytes a stored envelope decodes to
EnvelopeBytes(text) == urlsafe_b64decode(utf8_encode(text).v).v

\* the envelope that encodes bs
EnvelopeText(bs) == utf8_decode(urlsafe_b64encode(bs)).v

\* encryptor.decrypt_field on the envelope with one byte of its decoded form
\* changed and the result encoded again
DecryptTampered(delta) ==
    /\ Idle
    /\ encryptor.set
    /\ envelope.set
    /\ \E bs \in {EnvelopeBytes(envelope.text)} :
         \E i \in DOMAIN bs :
           last' = DecryptCall("tampered",
                       EnvelopeText([bs EXCEPT ![i] = (bs[i] + delta) % 256]), i)
    /\ encryptor' = AfterCall("decrypt_field")
    /\ UNCHANGED <<clock, envelope, users, plain, files, tasks>>

\* encryptor.decrypt_field on the encoding of the first n bytes of the
\* decoded envelope, n below 12 + 16 + 32
DecryptShort(n) ==
    /\ Idle
    /\ encryptor.set
    /\ envelope.set
    /\ last' = DecryptCall("short",
                   EnvelopeText(SubSeq(EnvelopeBytes(envelope.text), 1, n)), n)
    /\ encryptor' = AfterCall("decrypt_field")
    /\ UNCHANGED <<clock, envelope, users, plain, files, tasks>>

(***************************************************************************)
(* UserService calls.  A call commits its row or leaves the table as it    *)
(* was; the random generator is in state seed when the call starts.        *)
(***************************************************************************)
CallEnv(seed) == [seed |-> seed, day |-> clock, tick |-> 0]

\* the call, its result and the table row before and after it
WriteCall(op, user_id, arg, w) ==
    [op |-> op, user_id |-> user_id, arg |-> arg, ret |-> w.ok,
     enc_in |-> w.enc_in, enc |-> w.enc, before |-> users[user_id],
     after |-> IF w.ok THEN <<w.row>> ELSE users[user_id]]

\* session.commit() of a write that raised nothing
Commit(user_id, w) ==
    /\ users' = IF w.ok THEN [users EXCEPT ![user_id] = <<w.row>>] ELSE users
    /\ plain' = IF w.ok THEN [plain EXCEPT ![user_id] = w.enc_in] ELSE plain

\* UserService.save_user_data(user_id, user_data)
SaveUserData(user_id, user_data, seed) ==
    /\ Idle
    /\ \E w \in {save_user_data(encryptor.self, users[user_id], user_data,
                                CallEnv(seed))} :
           /\ last' = WriteCall("save_user_data", user_id, user_data, w)
           /\ Commit(user_id, w)
    /\ UNCHANGED <<encryptor, clock, envelope, files, tasks>>

\* UserService.update_user_field(user_id, field, value): False when the
\* table has no row for the user
UpdateUserField(user_id, field, value, seed) ==
    /\ Idle
    /\ IF Len(users[user_id]) = 0
       THEN /\ last' = [op |-> "update_user_field", user_id |-> user_id,
                        arg |-> <<field, value>>, ret |-> FALSE,
                        enc_in |-> <<>>,
                        enc |-> [status |-> "none", v |-> <<>>, calls |-> <<>>],
                        before |-> <<>>, after |-> <<>>]
            /\ UNCHANGED <<users, plain>>
       ELSE \E w \in {update_user_field(encryptor.self, users[user_id][1],
                                        field, value, CallEnv(seed))} :
                /\ last' = WriteCall("update_user_field", user_id,
                                     <<field, value>>, w)
                /\ Commit(user_id, w)
    /\ UNCHANGED <<encryptor, clock, envelope, files, tasks>>

\* UserService.get_user_data(user_id)
GetUserData(user_id) ==
    /\ Idle
    /\ last' = [op |-> "get_user_data", user_id |-> user_id,
                ret |-> get_user_data(encryptor.self, users[user_id])]
    /\ UNCHANGED <<encryptor, clock, envelope, users, plain, files, tasks>>

\* UserService.get_user_data(user_id) as the call that follows a
\* save_user_data(user_id, saved) that returned True
GetSavedUserData(user_id) ==
    /\ last.op = "save_user_data"
    /\ last.user_id = user_id
    /\ last.ret
    /\ last' = [op |-> "get_user_data", user_id |-> user_id,
                ret |-> get_user_data(encryptor.self, users[user_id]),
                saved |-> last.arg]
    /\ UNCHANGED <<encryptor, clock, envelope, users, plain, files, tasks>>

\* the callback "finish_basic_data" of a user whose dialogue state holds
\* state_data
FinishDataCollection(user_id, state_data, seed, refused, fault) ==
    /\ Idle
    /\ \E r \in {finish_data_collection(encryptor.self, users[user_id], state_data,
                                        CallEnv(seed), refused, fault)} :
           /\ last' = [op |-> "finish_data_collection", user_id |-> user_id,
                       state_data |-> state_data, called |-> r.called,
                       saved |-> r.saved, state |-> r.state, sent |-> r.sent,
                       before |-> users[user_id]]
           /\ users' = IF r.saved THEN [users EXCEPT ![user_id] = <<r.w.row>>]
                       ELSE users
           /\ plain' = IF r.saved THEN [plain EXCEPT ![user_id] = r.w.enc_in]
                       ELSE plain
    /\ UNCHANGED <<encryptor, clock, envelope, files, tasks>>

\* UserService.delete_user_data(user_id): False when the table has no row
DeleteUserData(user_id) ==
    /\ Idle
    /\ last' = [op |-> "delete_user_data", user_id |-> user_id,
                ret |-> Len(users[user_id]) > 0]
    /\ users' = IF Len(users[user_id]) > 0
                THEN [users EXCEPT ![user_id] = <<delete_user_data(@[1], clock)>>]
                ELSE users
    /\ UNCHANGED <<encryptor, clock, envelope, plain, files, tasks>>

\* the EncryptedRecord a row holds: the body of the dict in encrypted_data
StoredRecord(user) == json_loads(user.encrypted_data).v.v

\* the fields of an EncryptedRecord that hold an envelope
EnvelopeFields(record) ==
    {record[i][1] : i \in {j \in 1..Len(record) :
        /\ InEncryptedFields(record[j][1])
        /\ record[j][2].t = "str"
        /\ Len(record[j][2].v) > 0}}

\* the alphabet character whose value differs from c's in the lowest bit
FlipChar(c) ==
    Bind(B64Value(c), LAMBDA x :
        IF x = 64 THEN 65 ELSE B64Char(IF x % 2 = 0 THEN x + 1 ELSE x - 1))

\* text with the character at index i corrupted
Corrupt(text, i, how) ==
    [text EXCEPT ![i] = IF how = "flip" THEN FlipChar(text[i]) ELSE 33]

\* auto_decrypt_user_data on the stored record of a user with one character
\* of one field's envelope corrupted
AutoDecryptCorrupted(user_id, field, offset, how) ==
    /\ Idle
    /\ Len(users[user_id]) > 0
    /\ \E record \in {StoredRecord(users[user_id][1])} :
         /\ field \in EnvelopeFields(record)
         /\ \E text \in {DictGet(record, field).v} :
              /\ offset < Len(text)
              /\ \E bad \in {Corrupt(text, Len(text) - offset, how)} :
                   last' = [op |-> "auto_decrypt_user_data", user_id |-> user_id,
                            field |-> field, envelope |-> text, corrupted |-> bad,
                            record |-> record,
                            ret |-> auto_decrypt_user_data(encryptor.self,
                                        DictSet(record, field, PyStr(bad)))]
    /\ encryptor' = AfterCall("auto_decrypt_user_data")
    /\ UNCHANGED <<clock, envelope, users, plain, files, tasks>>

\* one character of the envelope a stored record holds for a field is
\* corrupted in the users table (the column is a Text the service does not
\* protect); the row is otherwise as it was
CorruptStoredField(user_id, field, offset, how) ==
    /\ Idle
    /\ Len(users[user_id]) > 0
    /\ \E record \in {StoredRecord(users[user_id][1])} :
         /\ field \in EnvelopeFields(record)
         /\ decrypt_field(encryptor.self, DictGet(record, field).v).status = "ok"
         /\ \E text \in {DictGet(record, field).v} :
              /\ offset < Len(text)
              /\ \E bad \in {Corrupt(text, Len(text) - offset, how)} :
                   users' = [users EXCEPT ![user_id] =
                       <<[@[1] EXCEPT !.encrypted_data =
                            json_dumps(PyDict(DictSet(record, field, PyStr(bad))),
                                       TRUE).v]>>]
    /\ UNCHANGED <<encryptor, clock, envelope, last, plain, files, tasks>>

(***************************************************************************)
(* Files, and the other calls of the cipher.                               *)
(***************************************************************************)
\* the file storage layer puts a file where there was none
PutFile(path, bytes) ==
    /\ Idle
    /\ files[path] = <<>>
    /\ files' = [files EXCEPT ![path] = <<bytes>>]
    /\ UNCHANGED <<encryptor, clock, envelope, last, users, plain, tasks>>

\* encryptor.encrypt_file(file_path, output_path, data_category) with the
\* file store failing as fault says
EncryptFile(file_path, output_path, data_category, seed, fault) ==
    /\ Idle
    /\ encryptor.set
    /\ \E r \in {encrypt_file(encryptor.self, files[file_path], files[output_path],
                              data_category, urandom(seed, 1), clock, clock, fault)} :
           /\ last' = [op |-> "encrypt_file", input |-> files[file_path],
                       before |-> files[output_path],
                       data_category |-> data_category, iv |-> urandom(seed, 1),
                       day |-> clock, fault |-> fault, res |-> r]
           /\ files' = [files EXCEPT ![output_path] = r.output]
    /\ encryptor' = AfterCall("encrypt_file")
    /\ UNCHANGED <<clock, envelope, users, plain, tasks>>

\* encryptor._map_field_to_category(field)
MapFieldToCategory(field) ==
    /\ Idle
    /\ encryptor.set
    /\ last' = [op |-> "_map_field_to_category", field |-> field,
                res |-> map_field_to_category(field)]
    /\ encryptor' = AfterCall("_map_field_to_category")
    /\ UNCHANGED <<clock, envelope, users, plain, files, tasks>>

\* the sensitive branch of auto_encrypt_user_data for one field:
\* encrypt_field(str(value), self._map_field_to_category(field))
EncryptNamedField(field, value, seed) ==
    /\ InEncryptedFields(field)
    /\ Truthy(value)
    /\ EncryptField([plain_text |-> PyStrOf(value),
                     data_category |-> map_field_to_category(field)], seed, 0)

\* encryptor.get_encryption_info()
GetEncryptionInfo ==
    /\ Idle
    /\ encryptor.set
    /\ last' = [op |-> "get_encryption_info",
                res |-> get_encryption_info(encryptor.self, clock)]
    /\ encryptor' = AfterCall("get_encryption_info")
    /\ UNCHANGED <<clock, envelope, users, plain, files, tasks>>

\* encryptor.auto_encrypt_user_data(user_data)
AutoEncryptUserData(user_data, seed) ==
    /\ Idle
    /\ encryptor.set
    /\ last' = [op |-> "auto_encrypt_user_data", arg |-> user_data, seed |-> seed,
                res |-> auto_encrypt_user_data(encryptor.self, user_data,
                                               CallEnv(seed))]
    /\ encryptor' = AfterCall("auto_encrypt_user_data")
    /\ UNCHANGED <<clock, envelope, users, plain, files, tasks>>

\* encryptor.auto_encrypt_user_data(user_data) with midnight passing before
\* the clock reading number tick of the call (every encrypt_field reads the
\* clock twice, the stamping twice more)
AutoEncryptOverMidnight(user_data, seed, tick) ==
    /\ Idle
    /\ encryptor.set
    /\ clock < MaxDay
    /\ \E r \in {auto_encrypt_user_data(encryptor.self, user_data,
                                        [seed |-> seed, day |-> clock, tick |-> tick])} :
           /\ tick >= 1
           /\ tick <= (IF r.status = "ok" THEN ClockReads(r) ELSE 2 * Len(r.calls))
           /\ last' = [op |-> "auto_encrypt_user_data", arg |-> user_data,
                       seed |-> seed, tick |-> tick, res |-> r]
    /\ clock' = clock + 1
    /\ encryptor' = AfterCall("auto_encrypt_user_data")
    /\ UNCHANGED <<envelope, users, plain, files, tasks>>

\* encryptor.auto_decrypt_user_data on the dict auto_encrypt_user_data has
\* just returned
AutoDecryptUserData ==
    /\ last.op = "auto_encrypt_user_data"
    /\ last.res.status = "ok"
    /\ last' = [op |-> "auto_decrypt_user_data", arg |-> last.res.v, of |-> last.arg,
                ret |-> auto_decrypt_user_data(encryptor.self, last.res.v)]
    /\ encryptor' = AfterCall("auto_decrypt_user_data")
    /\ UNCHANGED <<clock, envelope, users, plain, files, tasks>>

\* decrypt_field(envelope) on the instance of an installation that has
\* another master key
DecryptForeign(master_key) ==
    /\ Idle
    /\ encryptor.set
    /\ envelope.set
    /\ \E other \in {PersonalDataEncryptor(master_key, 90)} :
           /\ other.status = "ok"
           /\ other.self.master_key # encryptor.self.master_key
           /\ last' = [op |-> "decrypt_field", input |-> "foreign",
                       text |-> envelope.text, at |-> 0,
                       res |-> decrypt_field(other.self, envelope.text)]
    /\ UNCHANGED <<encryptor, clock, envelope, users, plain, files, tasks>>

\* encryptor.decrypt_field on bytes that were sealed with the keys of the
\* instance (encrypted, tagged, signed and encoded as encrypt_field does)
DecryptSealed(bytes) ==
    /\ Idle
    /\ encryptor.set
    /\ \E text \in {seal(encryptor.self, urandom(1, 1), bytes).v} :
           last' = [op |-> "decrypt_field", input |-> "sealed", text |-> text,
                    at |-> 0, sealed |-> bytes,
                    res |-> decrypt_field(encryptor.self, text)]
    /\ encryptor' = AfterCall("decrypt_field")
    /\ UNCHANGED <<clock, envelope, users, plain, files, tasks>>

\* encryptor.decrypt_field on a text that no encryption has produced
DecryptText(text) ==
    /\ Idle
    /\ encryptor.set
    /\ last' = DecryptCall("text", text, 0)
    /\ encryptor' = AfterCall("decrypt_field")
    /\ UNCHANGED <<clock, envelope, users, plain, files, tasks>>

(***************************************************************************)
(* UserService calls as asyncio tasks.  A task is suspended in              *)
(* "await session.get(User, user_id)"; from the row that call returns to   *)
(* "await session.commit()" it runs without suspending.  Every task has    *)
(* its own session; models.User has no version column, so the UPDATE of a  *)
(* commit replaces the row whatever another session has committed since    *)
(* the row was read, unless the database refuses it.                       *)
(***************************************************************************)
\* task t calls update_user_field or save_user_data for an existing user and
\* its session.get returns the row
BeginUpdate(t, user_id, call) ==
    /\ Idle
    /\ tasks[t] = <<>>
    /\ Len(users[user_id]) > 0
    /\ tasks' = [tasks EXCEPT ![t] =
                    <<[pc |-> "got", user_id |-> user_id, call |-> call,
                       user |-> users[user_id][1], ret |-> FALSE]>>]
    /\ UNCHANGED <<encryptor, clock, envelope, last, users, plain, files>>

\* what task t computes from the row it holds, up to its commit
task_write(self, task, env) ==
    IF task.call.op = "update_user_field"
    THEN update_user_field(self, task.user, task.call.user_data[1][1],
                           task.call.user_data[1][2], env)
    ELSE save_user_data(self, <<task.user>>, task.call.user_data, env)

\* task t resumes with its row, decrypts, changes, encrypts and commits; the
\* commit of a row that another session has changed meanwhile goes through
\* or raises (refused = TRUE), as the database decides
FinishUpdate(t, seed, refused) ==
    /\ tasks[t] # <<>>
    /\ tasks[t][1].pc = "got"
    /\ refused => users[tasks[t][1].user_id] # <<tasks[t][1].user>>
    /\ \E w \in {task_write(encryptor.self, tasks[t][1], CallEnv(seed))} :
         \E ok \in {w.ok /\ ~refused} :
           /\ users' = IF ok THEN [users EXCEPT ![tasks[t][1].user_id] = <<w.row>>]
                       ELSE users
           /\ plain' = IF ok THEN [plain EXCEPT ![tasks[t][1].user_id] = w.enc_in]
                       ELSE plain
           /\ tasks' = [tasks EXCEPT ![t] =
                           <<[pc |-> "done", user_id |-> tasks[t][1].user_id,
                              call |-> tasks[t][1].call, user |-> tasks[t][1].user,
                              ret |-> ok]>>]
    /\ UNCHANGED <<encryptor, clock, envelope, last, files>>

(***************************************************************************)
(* Specifications.                                                         *)
(***************************************************************************)
\* the cipher: construction, encrypt_field and decrypt_field
Next ==
    \/ Tick
    \/ Forget
    \/ Discard
    \/ \E token \in Tokens : GetEncryptor(token)
    \/ \E k \in MasterKeys, d \in RotationDays : CreateEncryptor(k, d)
    \/ \E in \in FieldInputs, seed \in 1..MaxSeed, tick \in 0..2 : EncryptField(in, seed, tick)
    \/ DecryptEnvelope
    \/ DecryptEmpty

Spec == Init /\ [][Next]_vars

\* decrypt_field on envelopes that were changed or cut short
NextTamper ==
    \/ Forget
    \/ Discard
    \/ \E in \in TamperInputs, seed \in 1..MaxSeed : EncryptField(in, seed, 0)
    \/ DecryptEnvelope
    \/ \E delta \in Deltas : DecryptTampered(delta)
    \/ \E n \in 1..(IV_LEN + TAG_LEN + HMAC_LEN - 1) : DecryptShort(n)

SpecTamper == InitService /\ [][NextTamper]_vars

\* the service and its table
NextRecord ==
    \/ Tick
    \/ Forget
    \/ \E u \in UserIds, r \in Records, seed \in 1..MaxSeed : SaveUserData(u, r, seed)
    \/ \E u \in UserIds, fv \in FieldUpdates, seed \in 1..MaxSeed :
           UpdateUserField(u, fv[1], fv[2], seed)
    \/ \E u \in UserIds : GetUserData(u)
    \/ \E u \in UserIds : DeleteUserData(u)
    \/ \E u \in UserIds, f \in {Str.fio, Str.phone}, o \in CorruptOffsets,
          how \in Corruptions : AutoDecryptCorrupted(u, f, o, how)

SpecRecord == InitService /\ [][NextRecord]_vars

\* decrypt_field on old envelopes, on the envelopes of other installations
\* and on input that encrypt_field has not produced
NextDecrypt ==
    \/ Tick
    \/ Forget
    \/ Discard
    \/ \E in \in TamperInputs, seed \in 1..MaxSeed : EncryptField(in, seed, 0)
    \/ DecryptEnvelope
    \/ \E k \in ForeignKeys : DecryptForeign(k)
    \/ \E bytes \in SealedPlains : DecryptSealed(bytes)
    \/ \E text \in GarbageTexts : DecryptText(text)

SpecDecrypt == InitService /\ [][NextDecrypt]_vars

\* the key version as time passes
NextVersion ==
    \/ Forget
    \/ \E days \in Elapsed : Elapse(days)
    \/ GetEncryptionInfo

SpecVersion == InitVersion /\ [][NextVersion]_vars

\* the classification of field names, alone and on the way to an envelope
NextCategory ==
    \/ Forget
    \/ Discard
    \/ \E field \in FieldNames : MapFieldToCategory(field)
    \/ \E field \in FieldNames, seed \in 1..MaxSeed :
           EncryptNamedField(field, PyStr(<<97>>), seed)
    \/ DecryptEnvelope

SpecCategory == InitService /\ [][NextCategory]_vars

\* saves, updates and deletions of one user, and the reading that follows a
\* save
NextSaved ==
    \/ Forget
    \/ \E u \in UserIds, r \in Records, seed \in 1..MaxSeed : SaveUserData(u, r, seed)
    \/ \E u \in UserIds, fv \in FieldUpdates, seed \in 1..MaxSeed :
           UpdateUserField(u, fv[1], fv[2], seed)
    \/ \E u \in UserIds : GetSavedUserData(u)
    \/ \E u \in UserIds : DeleteUserData(u)

SpecSaved == InitService /\ [][NextSaved]_vars

\* writes to a user whose stored record has a field that does not decrypt
NextSentinel ==
    \/ Forget
    \/ \E u \in UserIds, r \in Records, seed \in 1..MaxSeed : SaveUserData(u, r, seed)
    \/ \E u \in UserIds, fv \in FieldUpdates, seed \in 1..MaxSeed :
           UpdateUserField(u, fv[1], fv[2], seed)
    \/ \E u \in UserIds, f \in {Str.fio, Str.phone}, how \in Corruptions :
           CorruptStoredField(u, f, 0, how)

SpecSentinel == InitService /\ [][NextSentinel]_vars

\* the end of the dialogue that collects the data of a user
NextFinish ==
    \/ Forget
    \/ \E u \in UserIds, r \in Records, seed \in 1..MaxSeed, refused \in BOOLEAN,
          fault \in HandlerFaults : FinishDataCollection(u, r, seed, refused, fault)
    \/ \E u \in UserIds : GetUserData(u)

SpecFinish == InitService /\ [][NextFinish]_vars

\* records through auto_encrypt_user_data and back, on one day and over
\* midnight
NextRoundTrip ==
    \/ Tick
    \/ Forget
    \/ \E r \in RoundTripRecords, seed \in 1..MaxSeed : AutoEncryptUserData(r, seed)
    \/ \E r \in RoundTripRecords, seed \in 1..MaxSeed :
           \E tick \in 1..(2 * Len(r) + 2) : AutoEncryptOverMidnight(r, seed, tick)
    \/ AutoDecryptUserData

SpecRoundTrip == InitService /\ [][NextRoundTrip]_vars

\* two tasks that update the record of one user
NextRace ==
    \/ Forget
    \/ \E u \in UserIds, r \in Records, seed \in 1..MaxSeed :
           users[u] = <<>> /\ SaveUserData(u, r, seed)
    \/ \E t \in Tasks, u \in UserIds, call \in RaceCalls : BeginUpdate(t, u, call)
    \/ \E t \in Tasks, seed \in 1..MaxSeed, refused \in BOOLEAN :
           FinishUpdate(t, seed, refused)

SpecRace == InitService /\ [][NextRace]_vars

\* every method of the cipher on one instance, and the file store
NextFile ==
    \/ Forget
    \/ Discard
    \/ \E bytes \in FilePayloads : PutFile("in", bytes)
    \/ \E c \in FileCategories, seed \in 1..MaxSeed, fault \in Faults :
           EncryptFile("in", "out", c, seed, fault)
    \/ \E in \in TamperInputs, seed \in 1..MaxSeed : EncryptField(in, seed, 0)
    \/ DecryptEnvelope
    \/ GetEncryptionInfo
    \/ \E r \in Records, seed \in 1..MaxSeed : AutoEncryptUserData(r, seed)
    \/ AutoDecryptUserData

SpecFile == InitService /\ [][NextFile]_vars

(***************************************************************************)
(* Properties.                                                             *)
(***************************************************************************)
\* the last call was encrypt_field on a non-empty plain text
EncryptedNonEmpty == last.op = "encrypt_field" /\ Len(last.plain_text) > 0

\* decrypt_field on text returns the pair (s, c)
DecryptsTo(text, s, c) ==
    \E d \in {decrypt_field(encryptor.self, text)} :
        d.status = "ok" /\ d.data = PyStr(s) /\ d.category = c

\* C1 as stated: for every non-empty string s and every category c,
\* encrypt_field(s, c) returns an envelope and decrypt_field returns exactly
\* (s, c) for it, whatever IV was drawn and whatever the time of the calls.
C1_RoundTripEveryString ==
    EncryptedNonEmpty =>
        /\ last.res.status = "ok"
        /\ DecryptsTo(last.res.v, last.plain_text, last.data_category)

\* C1: for every non-empty string s that UTF-8 can encode (no lone
\* surrogate) and every category c, decrypt_field(encrypt_field(s, c)) on the
\* same instance returns exactly (s, c), whatever IV was drawn and whatever
\* time the two calls happen at; for a string with a lone surrogate
\* encrypt_field raises EncryptionError and returns no envelope.
C1_RoundTrip ==
    /\ EncryptedNonEmpty =>
           IF utf8_encode(last.plain_text).ok
           THEN /\ last.res.status = "ok"
                /\ DecryptsTo(last.res.v, last.plain_text, last.data_category)
           ELSE last.res.status = "EncryptionError" /\ last.res.v = <<>>
    /\ (last.op = "decrypt_field" /\ last.input = "envelope") =>
           /\ last.res.status = "ok"
           /\ last.res.data = PyStr(envelope.plain_text)
           /\ last.res.category = envelope.data_category

\* an envelope of a non-ASCII plain text with a quote and a backslash is
\* decrypted on a later day than it was encrypted on
C1_Witness ==
    /\ last.op = "decrypt_field" /\ last.input = "envelope"
    /\ last.res.status = "ok"
    /\ last.res.data = PyStr(<<233, 34, 92>>)
    /\ envelope.day < clock

\* the indices at which two byte strings of one length differ
DiffersAt(a, b) == {i \in 1..Len(a) : a[i] # b[i]}

\* C2: for every envelope encrypt_field produced and every byte position of
\* its decoded form, decrypt_field on the envelope with that byte changed and
\* the bytes encoded again fails with SecurityError and returns no pair.
C2_TamperDetected ==
    (last.op = "decrypt_field" /\ last.input = "tampered") =>
        last.res.status = "SecurityError" /\ last.res.data = PyNone

\* a byte of the HMAC, and nothing else, was changed and the call failed
C2_Witness ==
    /\ last.op = "decrypt_field" /\ last.input = "tampered"
    /\ last.at > Len(EnvelopeBytes(envelope.text)) - HMAC_LEN
    /\ Len(EnvelopeBytes(last.text)) = Len(EnvelopeBytes(envelope.text))
    /\ DiffersAt(EnvelopeBytes(last.text), EnvelopeBytes(envelope.text)) = {last.at}
    /\ last.res.status = "SecurityError"

\* the HMAC stored in text is the HMAC of the IV, ciphertext and tag in it
HmacMatches(text) ==
    \E p \in {SplitEnvelope(EnvelopeBytes(text))} :
        hmac_sha256(encryptor.self.auth_key, p.iv \o p.encrypted_data \o p.auth_tag)
            = p.hmac_digest

GcmCalls == {"Cipher", "decryptor.update", "decryptor.finalize"}

\* C3: in decrypt_field every AES-GCM step comes after the HMAC check; when
\* the HMAC does not match, the call fails with SecurityError and no AES-GCM
\* decryptor is created or run.
C3_VerifyBeforeDecrypt ==
    (last.op = "decrypt_field" /\ Len(last.text) > 0) =>
        /\ \A i \in DOMAIN last.res.trace :
               last.res.trace[i] \in GcmCalls =>
                   \E j \in 1..(i - 1) : last.res.trace[j] = "hmac.verify"
        /\ ~HmacMatches(last.text) =>
               /\ last.res.status = "SecurityError"
               /\ \A i \in DOMAIN last.res.trace : last.res.trace[i] \notin GcmCalls

\* a call whose HMAC did not match stopped at hmac.verify
C3_Witness ==
    /\ last.op = "decrypt_field" /\ last.input = "tampered"
    /\ ~HmacMatches(last.text)
    /\ last.res.status = "SecurityError"
    /\ last.res.trace[Len(last.res.trace)] = "hmac.verify"

\* C4 as stated: for every non-empty input whose base64 decoding is shorter
\* than 60 bytes, decrypt_field rejects it before any HMAC computation or
\* verification and before any AES-GCM operation is started.
C4_ShortRejectedFirst ==
    (last.op = "decrypt_field" /\ last.input = "short") =>
        /\ last.res.status # "ok"
        /\ \A i \in DOMAIN last.res.trace :
               last.res.trace[i] \notin (GcmCalls \cup {"hmac.HMAC", "hmac.update", "hmac.verify"})

\* the last call was a write that reached auto_encrypt_user_data
IsWrite ==
    /\ last.op \in {"save_user_data", "update_user_field"}
    /\ last.enc.status # "none"

\* one of the encrypt_field calls of the last write raised EncryptionError
FieldFailed ==
    \E i \in DOMAIN last.enc.calls : last.enc.calls[i] = "EncryptionError"

\* C5: if encrypt_field raises EncryptionError for one sensitive field
\* during auto_encrypt_user_data, the call raises EncryptionError and returns
\* no record, save_user_data / update_user_field return False, and the row of
\* the user is what it was before the call.
C5_AllOrNothing ==
    (IsWrite /\ FieldFailed) =>
        /\ last.enc.status = "EncryptionError"
        /\ last.enc.v = <<>>
        /\ ~last.ret
        /\ last.after = last.before
        /\ users[last.user_id] = last.before

\* a write on an existing user failed at a field after another field had
\* been encrypted
C5_Witness ==
    /\ IsWrite /\ FieldFailed
    /\ Len(last.enc.calls) >= 2
    /\ Len(last.before) > 0
    /\ ~last.ret

ReservedKeys == {Str._encrypted, Str._encryption_version, Str._encrypted_at}

\* what a value of field k is after auto_encrypt_user_data and
\* auto_decrypt_user_data: str(value) for a non-empty sensitive value
RoundValue(k, x) == IF InEncryptedFields(k) /\ Truthy(x) THEN PyStr(PyStrOf(x)) ELSE x

\* every field but the corrupted one has the value that was saved
OthersCorrect ==
    \A i \in DOMAIN plain[last.user_id] :
        \E k \in {plain[last.user_id][i][1]} :
            (k # last.field /\ k \notin ReservedKeys) =>
                /\ DictHas(last.ret, k)
                /\ DictGet(last.ret, k) = RoundValue(k, plain[last.user_id][i][2])

\* the corrupted envelope decodes, and to the bytes of the original
SameBytes ==
    /\ urlsafe_b64decode(utf8_encode(last.corrupted).v).ok
    /\ EnvelopeBytes(last.corrupted) = EnvelopeBytes(last.envelope)

\* C6 as stated: if exactly one sensitive field of an EncryptedRecord holds a
\* corrupted envelope, auto_decrypt_user_data returns the sentinel
\* "[DECRYPTION_ERROR]" for that field and the original value for every
\* other field.
C6_CorruptedIsSentinel ==
    (last.op = "auto_decrypt_user_data" /\ last.corrupted # last.envelope) =>
        /\ DictGet(last.ret, last.field) = PyStr(DECRYPTION_ERROR)
        /\ OthersCorrect

\* C6: if exactly one sensitive field of an EncryptedRecord holds a
\* corrupted envelope, auto_decrypt_user_data does not raise and returns the
\* original value for every other field; for the corrupted field it returns
\* the sentinel "[DECRYPTION_ERROR]" when the corrupted text does not decode
\* or decodes to other bytes than the original, and the original value when
\* it still decodes to the same bytes (base64 ignores the unused low bits of
\* the last character).
C6_FieldIsolated ==
    (last.op = "auto_decrypt_user_data" /\ last.corrupted # last.envelope) =>
        /\ OthersCorrect
        /\ DictKeys(last.ret) = DictKeys(last.record)
        /\ DictGet(last.ret, last.field) =
               IF SameBytes
               THEN RoundValue(last.field, DictGet(plain[last.user_id], last.field))
               ELSE PyStr(DECRYPTION_ERROR)

\* the envelope of fio was corrupted in a record that also holds a phone:
\* fio is the sentinel, phone its saved value
C6_Witness ==
    /\ last.op = "auto_decrypt_user_data"
    /\ last.field = Str.fio
    /\ DictGet(last.ret, Str.fio) = PyStr(DECRYPTION_ERROR)
    /\ DictHas(last.ret, Str.phone)
    /\ DictGet(last.ret, Str.phone) = PyStr(<<233, 34, 92>>)

\* field f of an EncryptedRecord holds an envelope of this instance
HoldsEnvelope(record, f) ==
    /\ DictHas(record, f)
    /\ DictGet(record, f).t = "str"
    /\ Len(DictGet(record, f).v) > 0
    /\ decrypt_field(encryptor.self, DictGet(record, f).v).status = "ok"

\* C7 as stated: after any sequence of save_user_data / update_user_field
\* calls, for every field name in UserService.encrypted_fields whose saved
\* value is non-empty, the encrypted_data blob of the row holds an envelope
\* for that field and not the plaintext value.
C7_NoPlaintextStored ==
    \A u \in UserIds :
        Len(users[u]) > 0 =>
            \A i \in DOMAIN encrypted_fields :
                (/\ DictHas(plain[u], encrypted_fields[i])
                 /\ Truthy(DictGet(plain[u], encrypted_fields[i])))
                    => /\ HoldsEnvelope(StoredRecord(users[u][1]), encrypted_fields[i])
                       /\ DictGet(StoredRecord(users[u][1]), encrypted_fields[i])
                              # DictGet(plain[u], encrypted_fields[i])

\* the output holds, for key k with input value x, an envelope of str(x)
\* with the category of k when k is sensitive and x non-empty, and x otherwise
KeyShape(out, k, x) ==
    /\ DictHas(out, k)
    /\ IF InEncryptedFields(k) /\ Truthy(x)
       THEN /\ DictGet(out, k).t = "str"
            /\ DecryptsTo(DictGet(out, k).v, PyStrOf(x), map_field_to_category(k))
       ELSE DictGet(out, k) = x

\* the output holds the three reserved keys, stamped at the time of the call
Stamped(out) ==
    /\ ReservedKeys \subseteq DictKeys(out)
    /\ DictGet(out, Str._encrypted) = PyBool(TRUE)
    /\ DictGet(out, Str._encryption_version)
           = PyStr(get_current_key_version(encryptor.self, clock))
    /\ DictGet(out, Str._encrypted_at) = PyStr(isoformat(clock))

\* C8 as stated: for every key k of the input record the output of
\* auto_encrypt_user_data holds an envelope of str(value) with the category of
\* k if k is sensitive and its value non-empty, and the input value unchanged
\* otherwise; the output additionally holds exactly the three reserved keys.
C8_ShapeEveryKey ==
    (IsWrite /\ last.enc.status = "ok") =>
        /\ \A i \in DOMAIN last.enc_in :
               KeyShape(last.enc.v, last.enc_in[i][1], last.enc_in[i][2])
        /\ DictKeys(last.enc.v) = DictKeys(last.enc_in) \cup ReservedKeys
        /\ Stamped(last.enc.v)

\* C8: for every key k of the input record other than the three reserved
\* keys, the output of auto_encrypt_user_data holds an envelope that decrypts
\* to str(value) with the category mapped from k if k is sensitive and its
\* value non-empty, and the input value unchanged otherwise; the output holds
\* no other keys than those of the input and the three reserved keys, and
\* the reserved keys hold _encrypted = true, the current key version and the
\* current time, whatever the input held under these keys.
C8_Shape ==
    (IsWrite /\ last.enc.status = "ok") =>
        /\ \A i \in DOMAIN last.enc_in :
               last.enc_in[i][1] \notin ReservedKeys =>
                   KeyShape(last.enc.v, last.enc_in[i][1], last.enc_in[i][2])
        /\ DictKeys(last.enc.v) = DictKeys(last.enc_in) \cup ReservedKeys
        /\ Stamped(last.enc.v)

\* the record of an existing user, with the reserved keys of an earlier day
\* in it, an int and an empty sensitive value, was encrypted again
C8_Witness ==
    /\ IsWrite /\ last.enc.status = "ok"
    /\ DictHas(last.enc_in, Str._encrypted_at)
    /\ DictGet(last.enc_in, Str._encrypted_at) # DictGet(last.enc.v, Str._encrypted_at)
    /\ DictHas(last.enc_in, Str.inn)
    /\ DictHas(last.enc_in, Str.fio)

\* C9: encrypt_field("", c) returns "" for every category c without drawing
\* an IV or producing an envelope, and decrypt_field("") returns ("", OTHER)
\* without raising.
C9_EmptyShortCircuit ==
    /\ (last.op = "encrypt_field" /\ Len(last.plain_text) = 0) =>
           /\ last.res.status = "ok"
           /\ last.res.v = <<>>
           /\ last.res.trace = <<>>
           /\ ~envelope.set
    /\ (last.op = "decrypt_field" /\ last.input = "empty") =>
           /\ last.res.status = "ok"
           /\ last.res.data = PyStr(<<>>)
           /\ last.res.category = "OTHER"

\* encrypt_field("", PASSPORT) has returned ""
C9_Witness ==
    /\ last.op = "encrypt_field"
    /\ last.plain_text = <<>>
    /\ last.data_category = "PASSPORT"
    /\ last.res.v = <<>>

\* C10 as stated: constructing the cipher with a master secret whose length
\* in bytes is not exactly 32 fails and derives no keys, and a secret of
\* exactly 32 bytes constructs successfully.
C10_LengthInBytes ==
    (last.op = "create_encryptor") =>
        /\ last.status = "ok" <=> Len(utf8_encode(last.master_key).v) = 32
        /\ last.status # "ok" => last.self = <<>>

\* the two instances hold the same pair of derived keys
SameKeys(a, b) == a.encryption_key = b.encryption_key /\ a.auth_key = b.auth_key

\* C11 key derivation is deterministic: an instance built from the master
\* secret of the instance built before it holds the same encryption_key and
\* the same auth_key (whatever the rotation periods and whichever of
\* get_encryptor and create_encryptor built them), an instance built from a
\* different master secret holds a different encryption_key and a different
\* auth_key, and in every instance encryption_key differs from auth_key
C11_KeysDeterministic ==
    (last.op = "create_encryptor" /\ last.status = "ok") =>
        /\ last.self.encryption_key # last.self.auth_key
        /\ last.prev.set =>
              IF last.prev.self.master_key = last.self.master_key
              THEN SameKeys(last.prev.self, last.self)
              ELSE /\ last.prev.self.encryption_key # last.self.encryption_key
                   /\ last.prev.self.auth_key # last.self.auth_key

\* a second instance was built from the master secret of the first with
\* another rotation period
C11_Witness ==
    /\ last.op = "create_encryptor" /\ last.status = "ok"
    /\ last.prev.set
    /\ last.prev.self.master_key = last.self.master_key
    /\ last.prev.self.key_rotation_days # last.self.key_rotation_days

\* the IV an envelope carries: the first 12 bytes it decodes to
IvOf(text) == SubSeq(EnvelopeBytes(text), 1, IV_LEN)

\* the last call was encrypt_file and it reached its encryption
FileEncrypted == last.op = "encrypt_file" /\ Len(last.res.pieces) > 0

\* the values auto_encrypt_user_data has encrypted, in the order of its loop
EncryptedValues(arg, out) ==
    SelectSeq([i \in 1..Len(arg) |->
                  IF InEncryptedFields(arg[i][1]) /\ Truthy(arg[i][2])
                  THEN DictGet(out, arg[i][1]).v ELSE <<>>],
              LAMBDA v : Len(v) > 0)

\* C12 as stated: no two encrypt_field and encrypt_file calls made with the
\* same derived encryption key use the same 12-byte IV (here: the
\* encrypt_file call and the encrypt_field call whose envelope is held)
C12_IvNeverReused ==
    (FileEncrypted /\ envelope.set) => last.iv # IvOf(envelope.text)

\* C12 every encrypt_field and encrypt_file call uses as its IV the 12 bytes
\* os.urandom returned to it in that call, and every encrypt_field call of
\* one auto_encrypt_user_data call the 12 bytes of its own draw; so two
\* calls under one key share an IV only when the generator returned the
\* same bytes twice
C12_IvDrawnPerCall ==
    /\ FileEncrypted =>
          /\ last.res.pieces[1] = last.iv
          /\ last.res.status = "ok" => SubSeq(files["out"][1], 1, IV_LEN) = last.iv
    /\ (EncryptedNonEmpty /\ last.res.status = "ok") => IvOf(last.res.v) = last.iv
    /\ (last.op = "auto_encrypt_user_data" /\ last.res.status = "ok") =>
          \E vs \in {EncryptedValues(last.arg, last.res.v)} :
              \A k \in 1..Len(vs) : IvOf(vs[k]) = urandom(last.seed, k)

\* encrypt_file has written a container while an envelope of the same
\* instance is held, and their IVs differ
C12_Witness ==
    /\ FileEncrypted /\ last.res.status = "ok"
    /\ envelope.set
    /\ SubSeq(files["out"][1], 1, IV_LEN) # IvOf(envelope.text)

\* the instance as get_encryptor built it
Built == new_singleton(ServiceToken).self

from_bytes4(bs) == ((bs[1] * 256 + bs[2]) * 256 + bs[3]) * 256 + bs[4]

\* the metadata section of a container, read without the key
ContainerMetadata(container) ==
    json_loads(utf8_decode(
        SubSeq(container, IV_LEN + 5,
               IV_LEN + 4 + from_bytes4(SubSeq(container, IV_LEN + 1, IV_LEN + 4)))).v)

\* C14 as stated: the cipher has a decryptFile operation that gives back the
\* payload of every container encrypt_file has written, and the category
\* and the timestamp of the container can be read from its metadata
\* section without decrypting
C14_FileRoundTrip ==
    (last.op = "encrypt_file" /\ last.res.status = "ok") =>
        /\ "decrypt_file" \in Methods
        /\ \E m \in {ContainerMetadata(files["out"][1])} :
              /\ m.ok
              /\ DictGet(m.v.v, Str.category) = PyStr(DataCategory[last.data_category])
              /\ DictGet(m.v.v, Str.encrypted_at) = PyStr(isoformat(last.day))

\* C20 as stated: when encrypt_file raises EncryptionError the output path
\* holds what it held before the call or no file, never part of a
\* container; when it returns the output path holds the whole container
C20_NoPartialOutput ==
    last.op = "encrypt_file" =>
        IF last.res.status = "ok"
        THEN files["out"] = <<Flatten(last.res.pieces)>>
        ELSE files["out"] = last.before \/ files["out"] = <<>>

\* the key version the instance stamps at clock reading day
VersionAt(day) == get_current_key_version(encryptor.self, day)

\* what json.loads makes of sealed bytes: [ok, v]
SealedPackage(bytes) ==
    Bind(utf8_decode(bytes), LAMBDA text :
        IF text.ok THEN json_loads(text.v) ELSE [ok |-> FALSE, v |-> PyNone])

\* the sealed bytes are a package with data and metadata whose category is
\* absent or the value of a member
WellFormedPackage(bytes) ==
    \E pkg \in {SealedPackage(bytes)} :
        /\ pkg.ok /\ pkg.v.t = "dict"
        /\ DictHas(pkg.v.v, Str.data)
        /\ \/ ~DictHas(pkg.v.v, Str.metadata)
           \/ /\ DictGet(pkg.v.v, Str.metadata).t = "dict"
              /\ \/ ~DictHas(DictGet(pkg.v.v, Str.metadata).v, Str.category)
                 \/ DataCategoryOf(DictGet(DictGet(pkg.v.v, Str.metadata).v,
                                           Str.category)).ok

\* C15 decryption does not depend on the key version: decrypt_field on an
\* envelope of the same instance returns its plain text and category at
\* every later time, whatever key version the clock gives then, and a
\* sealed package with data and a known or absent category is returned
\* whatever its key_version entry holds (v0, v999 or none)
C15_AnyKeyVersion ==
    /\ (last.op = "decrypt_field" /\ last.input = "envelope") =>
          /\ last.res.status = "ok"
          /\ last.res.data = PyStr(envelope.plain_text)
          /\ last.res.category = envelope.data_category
    /\ (last.op = "decrypt_field" /\ last.input = "sealed"
          /\ WellFormedPackage(last.sealed)) =>
          /\ last.res.status = "ok"
          /\ last.res.data = PyStr(<<97>>)

\* an envelope stamped with one key version was decrypted when the clock
\* gave another
C15_Witness ==
    /\ last.op = "decrypt_field" /\ last.input = "envelope"
    /\ last.res.status = "ok"
    /\ VersionAt(envelope.day) # VersionAt(clock)

\* C16 a changed master secret makes old data undecryptable: decrypt_field
\* on an instance built from another master secret fails on every envelope
\* with SecurityError, raised by the HMAC check before any cipher call, and
\* returns no plain text
C16_ForeignKeyRejected ==
    (last.op = "decrypt_field" /\ last.input = "foreign") =>
        /\ last.res.status = "SecurityError"
        /\ last.res.data = PyNone
        /\ last.res.trace[Len(last.res.trace)] = "hmac.verify"
        /\ \A i \in DOMAIN last.res.trace : last.res.trace[i] \notin GcmCalls

\* the envelope that the instance itself decrypts was refused by the
\* instance of another master secret
C16_Witness ==
    /\ last.op = "decrypt_field" /\ last.input = "foreign"
    /\ last.res.status = "SecurityError"
    /\ DecryptsTo(envelope.text, envelope.plain_text, envelope.data_category)

\* C18 as stated: every non-empty input that is no valid base64, or that
\* decodes to something that is no well-formed envelope with JSON content,
\* makes decrypt_field fail with DecryptionError
C18_OtherFailuresAreDecryptionError ==
    /\ (last.op = "decrypt_field" /\ last.input = "text") =>
          last.res.status = "DecryptionError"
    /\ (last.op = "decrypt_field" /\ last.input = "sealed"
          /\ ~SealedPackage(last.sealed).ok) =>
          last.res.status = "DecryptionError"

\* the category entry of the metadata of sealed bytes is a string that is
\* the value of no member of DataCategory
UnknownCategory(bytes) ==
    \E pkg \in {SealedPackage(bytes)} :
        /\ pkg.ok /\ pkg.v.t = "dict"
        /\ DictHas(pkg.v.v, Str.metadata)
        /\ DictGet(pkg.v.v, Str.metadata).t = "dict"
        /\ DictHas(DictGet(pkg.v.v, Str.metadata).v, Str.category)
        /\ DictGet(DictGet(pkg.v.v, Str.metadata).v, Str.category).t = "str"
        /\ \A c \in Categories :
               DictGet(DictGet(pkg.v.v, Str.metadata).v, Str.category).v
                   # DataCategory[c]

\* C19 an unknown category is an error: when an envelope passes the HMAC
\* check and the tag check and its metadata.category is a string outside
\* DataCategory, decrypt_field fails with DecryptionError after both checks
\* and returns no data
C19_UnknownCategoryFails ==
    (last.op = "decrypt_field" /\ last.input = "sealed"
      /\ UnknownCategory(last.sealed)) =>
        /\ last.res.status = "DecryptionError"
        /\ last.res.data = PyNone
        /\ \E i \in DOMAIN last.res.trace : last.res.trace[i] = "decryptor.finalize"

\* a sealed package of category 'xyz' was refused after json.loads
C19_Witness ==
    /\ last.op = "decrypt_field" /\ last.input = "sealed"
    /\ UnknownCategory(last.sealed)
    /\ HmacMatches(last.text)
    /\ last.res.status = "DecryptionError"
    /\ last.res.trace[Len(last.res.trace)] = "json.loads"

\* task t has returned True
Returned(t) == tasks[t] # <<>> /\ tasks[t][1].pc = "done" /\ tasks[t][1].ret

\* the keys a call writes
CallKeys(call) == {call.user_data[i][1] : i \in 1..Len(call.user_data)}

\* the stored record of the user holds every value the call has written
HoldsCall(user_id, call) ==
    \E rec \in {decrypt_user_data(encryptor.self, users[user_id][1])} :
        \A i \in 1..Len(call.user_data) :
            /\ DictHas(rec, call.user_data[i][1])
            /\ DictGet(rec, call.user_data[i][1]) = call.user_data[i][2]

\* C17 as stated: when two UserService updates (update_user_field or
\* save_user_data on an existing user) of the same user id and of different
\* fields interleave in any order and both return True, the stored record
\* holds both new values afterwards
C17_NoLostUpdate ==
    (/\ Returned(1) /\ Returned(2)
     /\ tasks[1][1].user_id = tasks[2][1].user_id
     /\ CallKeys(tasks[1][1].call) \cap CallKeys(tasks[2][1].call) = {}) =>
        /\ HoldsCall(tasks[1][1].user_id, tasks[1][1].call)
        /\ HoldsCall(tasks[1][1].user_id, tasks[2][1].call)

\* encrypt_field has just returned an envelope
EnvelopeReturned ==
    /\ last.op = "encrypt_field"
    /\ last.res.status = "ok"
    /\ Len(last.res.v) > 0

\* the bytes encrypt_field has just encrypted: the JSON of the data package,
\* with the metadata of the two clock readings it made
PackageBytes ==
    JsonBytes(PyDict(<< <<Str.metadata,
                          create_metadata(encryptor.self, last.data_category,
                                          envelope.day, clock)>>,
                        <<Str.data, PyStr(last.plain_text)>> >>))

\* the four parts encrypt_field has just concatenated
PartsWritten ==
    Bind(gcm_encrypt(encryptor.self.encryption_key, last.iv, <<>>, PackageBytes),
         LAMBDA enc :
        [iv |-> last.iv, auth_tag |-> enc.tag, encrypted_data |-> enc.ct,
         hmac_digest |-> hmac_sha256(encryptor.self.auth_key,
                                     last.iv \o enc.ct \o enc.tag)])

\* C21: every envelope encrypt_field returns decodes to at least 60 bytes
\* laid out as IV (12) || ciphertext || tag (16) || HMAC (32), the HMAC being
\* that of IV || ciphertext || tag, and the split of decrypt_field (first 12
\* bytes, last 32, the 16 before them, the rest) gives back exactly the IV,
\* the tag, the HMAC and the ciphertext that encrypt_field concatenated.
C21_LayoutAgrees ==
    EnvelopeReturned =>
        \E combined \in {EnvelopeBytes(last.res.v)} :
            /\ Len(combined) >= IV_LEN + TAG_LEN + HMAC_LEN
            /\ SplitEnvelope(combined) = PartsWritten
            /\ Len(PartsWritten.iv) = IV_LEN
            /\ Len(PartsWritten.auth_tag) = TAG_LEN
            /\ Len(PartsWritten.hmac_digest) = HMAC_LEN
            /\ combined = PartsWritten.iv \o PartsWritten.encrypted_data
                              \o PartsWritten.auth_tag \o PartsWritten.hmac_digest

\* an envelope of a non-ASCII plain text has been returned by a call during
\* which the day changed
C21_Witness ==
    /\ EnvelopeReturned
    /\ last.plain_text = <<233, 34, 92>>
    /\ envelope.day < clock
    /\ Len(SplitEnvelope(EnvelopeBytes(last.res.v)).encrypted_data) > 0

\* encrypt_file has just returned (it raised nothing)
FileWritten == last.op = "encrypt_file" /\ last.res.status = "ok"

\* the container cut at the offsets its length field gives
ContainerParts(container) ==
    Bind(from_bytes4(SubSeq(container, IV_LEN + 1, IV_LEN + 4)), LAMBDA n :
        IF IV_LEN + 4 + n + TAG_LEN > Len(container)
        THEN [iv |-> SubSeq(container, 1, IV_LEN), metadata_len |-> n, fits |-> FALSE,
              metadata_json |-> <<>>, encrypted_data |-> <<>>, auth_tag |-> <<>>]
        ELSE [iv |-> SubSeq(container, 1, IV_LEN), metadata_len |-> n, fits |-> TRUE,
              metadata_json |-> SubSeq(container, IV_LEN + 5, IV_LEN + 4 + n),
              encrypted_data |-> SubSeq(container, IV_LEN + 5 + n,
                                        Len(container) - TAG_LEN),
              auth_tag |-> SubSeq(container, Len(container) - TAG_LEN + 1,
                                  Len(container))])

\* the metadata of a file: category, time and key version of the call
FileMetadata ==
    create_metadata(encryptor.self, last.data_category, last.day, last.day)

\* C22: when encrypt_file returns, the output file holds, in this order, the
\* IV (12 bytes), the length of the metadata JSON as a 4-byte big-endian
\* integer, the metadata JSON (category, timestamp, key version) in clear,
\* the ciphertext and the 16-byte tag; the metadata in the file is byte for
\* byte the additional authenticated data of the encryption.
C22_ContainerLayout ==
    FileWritten =>
        /\ Len(files["out"]) = 1
        /\ Len(files["out"][1]) >= IV_LEN + 4 + TAG_LEN
        /\ \E c \in {ContainerParts(files["out"][1])} :
              /\ c.fits
              /\ c.iv = last.iv
              /\ c.metadata_len = Len(c.metadata_json)
              /\ c.metadata_json = utf8_encode(json_dumps(FileMetadata, TRUE).v).v
              /\ json_loads(utf8_decode(c.metadata_json).v)
                     = [ok |-> TRUE, v |-> FileMetadata]
              /\ Len(c.encrypted_data) = Len(last.input[1])
              /\ gcm_encrypt(encryptor.self.encryption_key, c.iv, c.metadata_json,
                             last.input[1])
                     = [ct |-> c.encrypted_data, tag |-> c.auth_tag]
              /\ gcm_decrypt(encryptor.self.encryption_key, c.iv, c.auth_tag,
                             c.metadata_json, c.encrypted_data)
                     = [ok |-> TRUE, v |-> last.input[1]]

\* a container of a binary payload has been written
C22_Witness ==
    /\ FileWritten
    /\ last.input = << <<0, 255, 10>> >>
    /\ last.data_category = "PASSPORT"
    /\ ContainerParts(files["out"][1]).metadata_len > 0

\* floor(days / p) for days >= 0 and p > 0
FloorOf(days, p) == CHOOSE n \in 0..days : n * p <= days /\ days < (n + 1) * p

\* the number a version token 'v<N>' carries
VersionNumber(token) == DigitsValue(token, 2, Len(token))

\* the key version of the instance on a day
VersionOn(day) == get_current_key_version(encryptor.self, day)

\* C23: at every time on or after 2020-01-01 and for every positive rotation
\* period p the current key version is "v" followed by floor(whole days
\* since 2020-01-01 / p); it never decreases as time advances, and it
\* changes exactly when the day count crosses a multiple of p (90 by
\* default).
C23_KeyVersionFormula ==
    /\ [](/\ VersionOn(clock)
                = <<118>> \o IntText(FloorOf(clock, encryptor.self.key_rotation_days))
          /\ VersionOn(clock)[1] = 118
          /\ VersionNumber(VersionOn(clock)) * encryptor.self.key_rotation_days <= clock
          /\ (last.op = "get_encryption_info") =>
                 last.res.current_key_version = VersionOn(clock))
    /\ [][clock' > clock =>
             /\ VersionNumber(VersionOn(clock')) >= VersionNumber(VersionOn(clock))
             /\ (VersionOn(clock') # VersionOn(clock)) <=>
                    (\E m \in (clock + 1)..clock' :
                         m % encryptor.self.key_rotation_days = 0)]_vars

\* an instance with the default period reports v2 after day 180
C23_Witness ==
    /\ last.op = "get_encryption_info"
    /\ encryptor.self.key_rotation_days = 90
    /\ clock > 180
    /\ last.res.current_key_version = <<118, 50>>

\* the static table: the category of each of the 13 sensitive field names
CategoryTable ==
    { <<Str.fio, "FIO">>, <<Str.passport_series, "PASSPORT">>,
      <<Str.passport_number, "PASSPORT">>, <<Str.passport_issue_date, "PASSPORT">>,
      <<Str.passport_issued_by, "PASSPORT">>, <<Str.address, "ADDRESS">>,
      <<Str.phone, "PHONE">>, <<Str.vzh_number, "VZH">>,
      <<Str.patent_number, "PATENT">>, <<Str.document_scan_path, "DOCUMENT_PHOTO">>,
      <<Str.email, "OTHER">>, <<Str.snils, "OTHER">>, <<Str.inn, "OTHER">> }

\* C24: _map_field_to_category is a total function: every field name has
\* exactly one DataCategory; each of the 13 sensitive names has the category
\* of the static table (passport_series, passport_number,
\* passport_issue_date and passport_issued_by: passport; fio, address, phone:
\* their own; vzh_number: vzh; patent_number: patent; document_scan_path:
\* document_photo; email, snils, inn: other) and every other name has other.
C24_CategoryTotal ==
    /\ {e[1] : e \in CategoryTable} = {ENCRYPTED_FIELDS[i] : i \in 1..Len(ENCRYPTED_FIELDS)}
    /\ Cardinality(CategoryTable) = 13 /\ Len(ENCRYPTED_FIELDS) = 13
    /\ (last.op = "_map_field_to_category") =>
          /\ last.res \in Categories
          /\ \A e \in CategoryTable : e[1] = last.field => last.res = e[2]
          /\ (\A e \in CategoryTable : e[1] # last.field) => last.res = "OTHER"
    /\ (last.op = "decrypt_field" /\ last.input = "envelope" /\ last.res.status = "ok") =>
          last.res.category \in Categories

\* a name that begins like a sensitive one and is in no table has been
\* classified, as other
C24_Witness ==
    /\ last.op = "_map_field_to_category"
    /\ last.field = Str.passport_birth_date
    /\ last.res = "OTHER"

\* a == b for two Python values: of the same type and equal
SameValue(a, b) == a.t = b.t /\ a.v = b.v

\* the record holds every item of the dict d
HoldsItems(record, d) ==
    \A i \in 1..Len(d) :
        DictHas(record, d[i][1]) /\ SameValue(DictGet(record, d[i][1]), d[i][2])

\* C25 as stated: after save_user_data(u, d) has returned True, a following
\* get_user_data(u) with no delete_user_data(u) in between returns a record
\* that holds every field of d with the saved value, whatever happened to
\* user u before, a delete_user_data(u) before the save included
C25_SaveVisible ==
    (last.op = "get_user_data" /\ "saved" \in DOMAIN last) =>
        HoldsItems(last.ret, last.saved)

\* the fields of a stored record whose envelope does not decrypt
Undecryptable(record) ==
    {f \in EnvelopeFields(record) :
        decrypt_field(encryptor.self, DictGet(record, f).v).status # "ok"}

\* the fields of a stored record whose envelope decrypts to the sentinel
SentinelFields(record) ==
    {f \in EnvelopeFields(record) :
        \E d \in {decrypt_field(encryptor.self, DictGet(record, f).v)} :
            d.status = "ok" /\ SameValue(d.data, PyStr(DECRYPTION_ERROR))}

\* the keys a save_user_data or update_user_field call writes
WrittenKeys ==
    IF last.op = "update_user_field" THEN {last.arg[1]}
    ELSE {last.arg[i][1] : i \in 1..Len(last.arg)}

\* C26 as stated: after any sequence of save_user_data / update_user_field
\* calls on a user whose stored record has a field that fails to decrypt, no
\* field of the stored record is an envelope of the literal
\* "[DECRYPTION_ERROR]", and the envelope that fails to decrypt is kept as
\* it was unless its field is the one being updated
C26_SentinelNotStored ==
    /\ \A u \in UserIds :
          Len(users[u]) > 0 => SentinelFields(StoredRecord(users[u][1])) = {}
    /\ (IsWrite /\ last.ret /\ Len(last.before) > 0) =>
          \A f \in Undecryptable(StoredRecord(last.before[1])) \ WrittenKeys :
              /\ DictHas(StoredRecord(last.after[1]), f)
              /\ DictGet(StoredRecord(last.after[1]), f)
                     = DictGet(StoredRecord(last.before[1]), f)

\* C27 as stated: in finish_data_collection the dialogue state is cleared
\* and the 'data saved' summary is sent only if save_user_data committed the
\* collected data (returned True); if saving fails, the collected data
\* stays in the dialogue state and the error message is sent instead
C27_SuccessOnlyIfSaved ==
    (last.op = "finish_data_collection") =>
        /\ (last.state = <<>> \/ last.sent = <<"summary">>) =>
               (last.saved /\ Len(users[last.user_id]) > 0)
        /\ (last.called /\ ~last.saved) =>
               (last.state = <<last.state_data>> /\ last.sent = <<"error">>)

\* auto_decrypt_user_data has just returned the decryption of what
\* auto_encrypt_user_data returned for the record last.of
RoundTripped == last.op = "auto_decrypt_user_data" /\ "of" \in DOMAIN last

\* C28 as stated: for every record r without reserved keys,
\* auto_decrypt_user_data(auto_encrypt_user_data(r)) has, for every key k of
\* r, exactly the value r[k] (sensitive or not, empty or not, string or
\* not), and differs from r only by the three added reserved keys
C28_RoundTripEveryValue ==
    RoundTripped =>
        /\ DictKeys(last.ret) = DictKeys(last.of) \cup ReservedKeys
        /\ \A i \in 1..Len(last.of) :
               SameValue(DictGet(last.ret, last.of[i][1]), last.of[i][2])

\* C28: for every record r without reserved keys that auto_encrypt_user_data
\* encrypts, auto_decrypt_user_data(auto_encrypt_user_data(r)) has for every
\* key k of r the value r[k] if k is not sensitive or r[k] is empty, None,
\* zero or False, and the string str(r[k]) if k is sensitive and r[k] is
\* anything else (r[k] itself when it is a string); it differs from that
\* only by the three added reserved keys, which it holds as
\* auto_encrypt_user_data stamped them.
C28_RoundTrip ==
    RoundTripped =>
        /\ DictKeys(last.ret) = DictKeys(last.of) \cup ReservedKeys
        /\ \A i \in 1..Len(last.of) :
               SameValue(DictGet(last.ret, last.of[i][1]),
                         RoundValue(last.of[i][1], last.of[i][2]))
        /\ \A k \in ReservedKeys :
               SameValue(DictGet(last.ret, k), DictGet(last.arg, k))

\* a record with an int, a non-ASCII string and an empty string under
\* sensitive names has come back, the int as a string
C28_Witness ==
    /\ RoundTripped
    /\ DictHas(last.of, Str.inn)
    /\ SameValue(DictGet(last.of, Str.inn), PyInt(7))
    /\ SameValue(DictGet(last.ret, Str.inn), PyStr(<<55>>))
    /\ SameValue(DictGet(last.ret, Str.phone), PyStr(<<233, 34, 92>>))

\* the metadata inside an envelope, read with the keys of the instance
EnvelopeMetadata(text) ==
    Bind(SplitEnvelope(EnvelopeBytes(text)), LAMBDA parts :
        DictGet(json_loads(utf8_decode(
                    gcm_decrypt(encryptor.self.encryption_key, parts.iv,
                                parts.auth_tag, <<>>, parts.encrypted_data).v).v).v.v,
                Str.metadata).v)

\* C30 as stated: in every record auto_encrypt_user_data returns, the
\* record-level _encryption_version equals the key_version in the metadata
\* of each of its field envelopes, also when the clock advances (possibly
\* across a rotation boundary) between the encryptions of the fields and
\* the final stamping
C30_VersionStampsAgree ==
    (last.op = "auto_encrypt_user_data" /\ last.res.status = "ok") =>
        \A f \in EnvelopeFields(last.res.v) :
            DictGet(EnvelopeMetadata(DictGet(last.res.v, f).v), Str.key_version)
                = DictGet(last.res.v, Str._encryption_version)

\* the items a save_user_data or update_user_field call writes
WrittenItems == IF last.op = "update_user_field" THEN <<last.arg>> ELSE last.arg

\* a write to an existing user has returned True
UpdatedExisting == IsWrite /\ last.ret /\ Len(last.before) > 0

\* C29 as stated: after save_user_data(u, d) or update_user_field(u, f, v)
\* returns True for an existing user, every field that was in the stored
\* record and is not in d (resp. is not f) decrypts to the same value as
\* before the call, and every field of d (resp. f) decrypts to the new value
C29_MergeEveryValue ==
    UpdatedExisting =>
        \E b \in {decrypt_user_data(encryptor.self, last.before[1])} :
        \E a \in {decrypt_user_data(encryptor.self, last.after[1])} :
            /\ \A i \in 1..Len(b) :
                   b[i][1] \notin (WrittenKeys \cup ReservedKeys) =>
                       /\ DictHas(a, b[i][1])
                       /\ SameValue(DictGet(a, b[i][1]), b[i][2])
            /\ \A i \in 1..Len(WrittenItems) :
                   /\ DictHas(a, WrittenItems[i][1])
                   /\ SameValue(DictGet(a, WrittenItems[i][1]), WrittenItems[i][2])

\* C29: after save_user_data(u, d) or update_user_field(u, f, v) returns
\* True for an existing user, every field other than the three reserved
\* keys that was in the stored record and is not in d (resp. is not f)
\* decrypts to the same value as before the call, and every field of d
\* (resp. f) decrypts to the new value, or to its string str(value) when the
\* field is sensitive and the value non-empty; the reserved keys are stamped
\* anew.
C29_UpdateMerges ==
    UpdatedExisting =>
        \E b \in {decrypt_user_data(encryptor.self, last.before[1])} :
        \E a \in {decrypt_user_data(encryptor.self, last.after[1])} :
            /\ \A i \in 1..Len(b) :
                   b[i][1] \notin (WrittenKeys \cup ReservedKeys) =>
                       /\ DictHas(a, b[i][1])
                       /\ SameValue(DictGet(a, b[i][1]), b[i][2])
            /\ \A i \in 1..Len(WrittenItems) :
                   /\ WrittenItems[i][1] \notin ReservedKeys
                   /\ DictHas(a, WrittenItems[i][1])
                   /\ SameValue(DictGet(a, WrittenItems[i][1]),
                                RoundValue(WrittenItems[i][1], WrittenItems[i][2]))
            /\ ReservedKeys \subseteq DictKeys(a)
            /\ DictGet(a, Str._encrypted_at) = PyStr(isoformat(clock))

\* update_user_field has replaced one field of a record that holds other
\* fields, a sensitive one among them, on a later day than it was saved
C29_Witness ==
    /\ UpdatedExisting
    /\ last.op = "update_user_field"
    /\ last.arg[1] = Str.fio
    /\ \E b \in {decrypt_user_data(encryptor.self, last.before[1])} :
          /\ DictHas(b, Str.phone)
          /\ DictHas(b, Str.inn)
          /\ DictGet(b, Str._encrypted_at) # PyStr(isoformat(clock))

====
